---- MODULE Spec2Model ----
(***************************************************************************)
(* Receipt wallet: the anonymous receipt store (receipt_bank) and the      *)
(* issuance orchestrator (fake_cash_register CashRegister).                *)
(*                                                                         *)
(* SpecStore : MemoryStorage behind SubmitHandler / CollectHandler, called *)
(*             by concurrent HTTP clients, and the Cleanup routine; the    *)
(*             mutex ms.mu is modelled explicitly.                         *)
(* SpecReg   : one CashRegister driven directly and through its HTTP       *)
(*             handler, with its signer, crypto and receipt-bank           *)
(*             collaborators.                                              *)
(***************************************************************************)
EXTENDS Integers, Sequences, FiniteSets, TLC

(***************************************************************************)
(* Bounds of the model.                                                    *)
(***************************************************************************)
MaxReceiptAge == 1
MaxTime == MaxReceiptAge + 1
MaxDelivered == 2

(***************************************************************************)
(* Inputs of the store and its processes: one HTTP client that submits,    *)
(* two that collect, and the cleanup routine.                              *)
(***************************************************************************)
EphemeralKeys == {"k1", "k2"}
MalformedKey == "short"
Payloads == {"v1", "v2"}
ReceiptIDs == {"r1", "r2"}
Submitters == {"s1"}
Collectors == {"c1", "c2"}
Sweeper == "sweeper"
Procs == Submitters \cup Collectors \cup {Sweeper}
NoProc == "none"

ErrNone == "nil"
ErrDuplicate == "receipt_id already exists"
ErrNotFound == "receipt not found"

NoReq == [kind |-> "none"]
NoLoc == [exists |-> FALSE]
NoResp == [proc |-> NoProc, kind |-> "none", status |-> 0]

VARIABLES
  receipts,   \* MemoryStorage.receipts: ephemeral key -> stored receipt
  mu,         \* MemoryStorage.mu: the process holding the lock, or NoProc
  now,        \* the clock read by time.Now()
  pc,         \* position of every store process
  req,        \* the request a process is serving
  loc,        \* Retrieve's locals (receipt, exists)
  res,        \* the error returned by the storage call
  resp,       \* the HTTP response written last
  delivered,  \* history: collects that returned the entry of a key since
              \* the last successful Store for that key
  gone        \* history: what last happened to each key

storeVars == <<receipts, mu, now, pc, req, loc, res, resp, delivered, gone>>

(***************************************************************************)
(* Go map operations on MemoryStorage.receipts.                            *)
(***************************************************************************)
MapPut(m, k, r) == [x \in (DOMAIN m) \cup {k} |-> IF x = k THEN r ELSE m[x]]

MapDelete(m, k) == [x \in (DOMAIN m) \ {k} |-> m[x]]

EmptyMap == [x \in {} |-> 0]

(***************************************************************************)
(* sync.RWMutex: Lock() returns only when nobody holds the lock.           *)
(***************************************************************************)
MuFree_NoExclusion == TRUE

MuFree == mu = NoProc

(***************************************************************************)
(* models.SubmitRequest.Validate / models.ValidateEphemeralKey: the key    *)
(* must decode to exactly 33 bytes.                                        *)
(***************************************************************************)
ValidateEphemeralKey(k) == k \in EphemeralKeys

(***************************************************************************)
(* MemoryStorage.Store, the duplicate receipt-id scan.                     *)
(***************************************************************************)
DuplicateID_OtherKeysOnly(m, r) ==
  \E k \in DOMAIN m : k # r.EphemeralKey /\ m[k].ReceiptID = r.ReceiptID

DuplicateID(m, r) == \E k \in DOMAIN m : m[k].ReceiptID = r.ReceiptID

(***************************************************************************)
(* MemoryStorage.Store as a whole: [err, receipts].                        *)
(***************************************************************************)
Store(m, r) ==
  IF DuplicateID(m, r)
  THEN [err |-> ErrDuplicate, receipts |-> m]
  ELSE [err |-> ErrNone, receipts |-> MapPut(m, r.EphemeralKey, r)]

(***************************************************************************)
(* SubmitHandler: the status answered for Store's result.                  *)
(***************************************************************************)
SubmitStatus(err) ==
  IF err = ErrNone THEN 200
  ELSE IF err = ErrDuplicate THEN 409 ELSE 500

(***************************************************************************)
(* CollectHandler: the status answered for Retrieve's result.              *)
(***************************************************************************)
CollectStatus(err) ==
  IF err = ErrNone THEN 200
  ELSE IF err = ErrNotFound THEN 404 ELSE 500

(***************************************************************************)
(* MemoryStorage.Retrieve: the entry is deleted after the lookup.          *)
(***************************************************************************)
RetrieveRemove_Keep(m, k) == m

(* receipt, exists := ms.receipts[ephemeralKey]                            *)
Exists_Unexpired(m, k) == k \in DOMAIN m /\ now - m[k].Timestamp <= MaxReceiptAge

Exists(m, k) == k \in DOMAIN m

RetrieveRemove(m, k) == MapDelete(m, k)

(***************************************************************************)
(* MemoryStorage.Cleanup: the expiry test and the sweep of the map.        *)
(***************************************************************************)
Expired_Never(r, t) == FALSE

Expired_AtMaxAge(r, t) == t - r.Timestamp >= MaxReceiptAge

Expired(r, t) == t - r.Timestamp > MaxReceiptAge

Swept(m, t) == [x \in {k \in DOMAIN m : ~Expired(m[k], t)} |-> m[x]]

(***************************************************************************)
(* MemoryStorage.Stats: (total, expired).                                  *)
(***************************************************************************)
Stats(m, t) ==
  [total |-> Cardinality(DOMAIN m),
   expired |-> Cardinality({k \in DOMAIN m : Expired(m[k], t)})]

(***************************************************************************)
(* NewMemoryStorage and idle processes.                                    *)
(***************************************************************************)
InitStorage ==
  /\ receipts = EmptyMap
  /\ mu = NoProc
  /\ now = 0
  /\ pc = [p \in Procs |-> "idle"]
  /\ req = [p \in Procs |-> NoReq]
  /\ loc = [p \in Procs |-> NoLoc]
  /\ res = [p \in Procs |-> ErrNone]
  /\ resp = NoResp
  /\ delivered = [k \in EphemeralKeys |-> 0]
  /\ gone = [k \in EphemeralKeys |-> "never"]

(***************************************************************************)
(* The clock advances.                                                     *)
(***************************************************************************)
Tick ==
  /\ now < MaxTime
  /\ now' = now + 1
  /\ UNCHANGED <<receipts, mu, pc, req, loc, res, resp, delivered, gone>>

(***************************************************************************)
(* SubmitHandler up to the call of Store: decode, validate, build the      *)
(* receipt with Timestamp = time.Now().                                    *)
(***************************************************************************)
SubmitBegin(p, k, v, id) ==
  /\ pc[p] = "idle"
  /\ IF ValidateEphemeralKey(k)
     THEN /\ req' = [req EXCEPT ![p] =
                 [kind |-> "submit", EphemeralKey |-> k, EncryptedData |-> v,
                  ReceiptID |-> id, Timestamp |-> now]]
          /\ pc' = [pc EXCEPT ![p] = "store_lock"]
          /\ resp' = resp
     ELSE /\ resp' = [proc |-> p, kind |-> "submit", status |-> 400]
          /\ UNCHANGED <<req, pc>>
  /\ UNCHANGED <<receipts, mu, now, loc, res, delivered, gone>>

StoreLock(p) ==
  /\ pc[p] = "store_lock"
  /\ MuFree
  /\ mu' = p
  /\ pc' = [pc EXCEPT ![p] = "store_body"]
  /\ UNCHANGED <<receipts, now, req, loc, res, resp, delivered, gone>>

StoreBody(p) ==
  /\ pc[p] = "store_body"
  /\ LET r == [EphemeralKey |-> req[p].EphemeralKey,
               EncryptedData |-> req[p].EncryptedData,
               ReceiptID |-> req[p].ReceiptID,
               Timestamp |-> req[p].Timestamp]
         out == Store(receipts, r)
     IN /\ receipts' = out.receipts
        /\ res' = [res EXCEPT ![p] = out.err]
        /\ gone' = IF out.err = ErrNone
                   THEN [gone EXCEPT ![r.EphemeralKey] = "submitted"]
                   ELSE gone
        /\ delivered' = IF out.err = ErrNone
                        THEN [delivered EXCEPT ![r.EphemeralKey] = 0]
                        ELSE delivered
  /\ pc' = [pc EXCEPT ![p] = "store_unlock"]
  /\ UNCHANGED <<mu, now, req, loc, resp>>

StoreUnlock(p) ==
  /\ pc[p] = "store_unlock"
  /\ mu' = NoProc
  /\ resp' = [proc |-> p, kind |-> "submit", status |-> SubmitStatus(res[p])]
  /\ pc' = [pc EXCEPT ![p] = "idle"]
  /\ req' = [req EXCEPT ![p] = NoReq]
  /\ res' = [res EXCEPT ![p] = ErrNone]
  /\ UNCHANGED <<receipts, now, loc, delivered, gone>>

(***************************************************************************)
(* CollectHandler: validate the key, then Retrieve.                        *)
(***************************************************************************)
CollectRejected(p, k) ==
  /\ pc[p] = "idle"
  /\ ~ValidateEphemeralKey(k)
  /\ resp' = [proc |-> p, kind |-> "collect", status |-> 400]
  /\ UNCHANGED <<receipts, mu, now, pc, req, loc, res, delivered, gone>>

CollectBegin(p, k) ==
  /\ pc[p] = "idle"
  /\ ValidateEphemeralKey(k)
  /\ req' = [req EXCEPT ![p] = [kind |-> "collect", EphemeralKey |-> k]]
  /\ pc' = [pc EXCEPT ![p] = "retr_lock"]
  /\ UNCHANGED <<receipts, mu, now, loc, res, resp, delivered, gone>>

RetrieveLock(p) ==
  /\ pc[p] = "retr_lock"
  /\ MuFree
  /\ mu' = p
  /\ pc' = [pc EXCEPT ![p] = "retr_lookup"]
  /\ UNCHANGED <<receipts, now, req, loc, res, resp, delivered, gone>>

RetrieveLookup(p) ==
  /\ pc[p] = "retr_lookup"
  /\ LET k == req[p].EphemeralKey
     IN IF Exists(receipts, k)
        THEN /\ loc' = [loc EXCEPT ![p] = [exists |-> TRUE, receipt |-> receipts[k]]]
             /\ pc' = [pc EXCEPT ![p] = "retr_delete"]
             /\ res' = res
        ELSE /\ loc' = [loc EXCEPT ![p] = NoLoc]
             /\ res' = [res EXCEPT ![p] = ErrNotFound]
             /\ pc' = [pc EXCEPT ![p] = "retr_unlock"]
  /\ UNCHANGED <<receipts, mu, now, req, resp, delivered, gone>>

RetrieveDelete(p) ==
  /\ pc[p] = "retr_delete"
  /\ LET k == req[p].EphemeralKey
     IN /\ receipts' = RetrieveRemove(receipts, k)
        /\ gone' = [gone EXCEPT ![k] = "collected"]
        /\ delivered' = [delivered EXCEPT ![k] =
                           IF @ < MaxDelivered THEN @ + 1 ELSE @]
  /\ res' = [res EXCEPT ![p] = ErrNone]
  /\ pc' = [pc EXCEPT ![p] = "retr_unlock"]
  /\ UNCHANGED <<mu, now, req, loc, resp>>

RetrieveUnlock(p) ==
  /\ pc[p] = "retr_unlock"
  /\ mu' = NoProc
  /\ resp' = IF res[p] = ErrNone
             THEN [proc |-> p, kind |-> "collect",
                   status |-> CollectStatus(res[p]),
                   EphemeralKey |-> req[p].EphemeralKey,
                   EncryptedData |-> loc[p].receipt.EncryptedData,
                   ReceiptID |-> loc[p].receipt.ReceiptID]
             ELSE [proc |-> p, kind |-> "collect",
                   status |-> CollectStatus(res[p]),
                   EphemeralKey |-> req[p].EphemeralKey]
  /\ pc' = [pc EXCEPT ![p] = "idle"]
  /\ req' = [req EXCEPT ![p] = NoReq]
  /\ loc' = [loc EXCEPT ![p] = NoLoc]
  /\ res' = [res EXCEPT ![p] = ErrNone]
  /\ UNCHANGED <<receipts, now, delivered, gone>>

(***************************************************************************)
(* The cleanup routine: Cleanup on every tick of the ticker.               *)
(***************************************************************************)
CleanupLock ==
  /\ pc[Sweeper] = "idle"
  /\ MuFree
  /\ mu' = Sweeper
  /\ pc' = [pc EXCEPT ![Sweeper] = "clean_body"]
  /\ UNCHANGED <<receipts, now, req, loc, res, resp, delivered, gone>>

CleanupBody ==
  /\ pc[Sweeper] = "clean_body"
  /\ receipts' = Swept(receipts, now)
  /\ gone' = [k \in EphemeralKeys |->
                IF k \in DOMAIN receipts /\ k \notin DOMAIN Swept(receipts, now)
                THEN "swept" ELSE gone[k]]
  /\ pc' = [pc EXCEPT ![Sweeper] = "clean_unlock"]
  /\ UNCHANGED <<mu, now, req, loc, res, resp, delivered>>

CleanupUnlock ==
  /\ pc[Sweeper] = "clean_unlock"
  /\ mu' = NoProc
  /\ pc' = [pc EXCEPT ![Sweeper] = "idle"]
  /\ UNCHANGED <<receipts, now, req, loc, res, resp, delivered, gone>>

StoreStep ==
  \/ Tick
  \/ \E p \in Submitters, k \in EphemeralKeys \cup {MalformedKey},
        v \in Payloads, id \in ReceiptIDs : SubmitBegin(p, k, v, id)
  \/ \E p \in Submitters : StoreLock(p)
  \/ \E p \in Submitters : StoreBody(p)
  \/ \E p \in Submitters : StoreUnlock(p)
  \/ \E p \in Collectors : CollectRejected(p, MalformedKey)
  \/ \E p \in Collectors, k \in EphemeralKeys : CollectBegin(p, k)
  \/ \E p \in Collectors : RetrieveLock(p)
  \/ \E p \in Collectors : RetrieveLookup(p)
  \/ \E p \in Collectors : RetrieveDelete(p)
  \/ \E p \in Collectors : RetrieveUnlock(p)
  \/ CleanupLock
  \/ CleanupBody
  \/ CleanupUnlock


(***************************************************************************)
(***************************************************************************)
(* The cash register (issuance orchestrator).                              *)
(* Amounts are kept in kurus (minor units).                                *)
(***************************************************************************)
(***************************************************************************)
MaxCounter == 2
MaxItems == 1
MaxQuantity == 1
MaxRegTime == 1

MagicBytes == 21586
FormatVersion == 1
Reserved == 0
SignatureSize == 64
HashSize == 32
CompressedKeySize == 33
HeaderSize == 4
ItemSize == 13
TaxBreakdownSize == 20

VARIABLES
  cfg,             \* config: store info and standalone_mode
  currentReceipt,  \* CashRegister.currentReceipt, Nil when there is none
  receiptCounter,  \* CashRegister.receiptCounter
  mockStorage,     \* MockReceiptBank.storage
  last             \* what the last call on the register did and returned

regVars == <<cfg, currentReceipt, receiptCounter, mockStorage, last>>

vars == <<receipts, mu, now, pc, req, loc, res, resp, delivered, gone,
          cfg, currentReceipt, receiptCounter, mockStorage, last>>

Nil == [nil |-> TRUE]

ZReportCounter == 1

(***************************************************************************)
(* Configuration: the kisim table and the store information.               *)
(***************************************************************************)
KisimLookup ==
  [id \in {1, 2} |->
     IF id = 1 THEN [TaxRate |-> 20, PresetPrice |-> 1200]
               ELSE [TaxRate |-> 10, PresetPrice |-> 1100]]

KisimInputs == {1, 9}
QuantityInputs == {0, 1}
PriceInputs == {0}
PaymentInputs == {<<78>>}
StoreVKNs == {<<"1", "2">>, <<"A", "1">>}
StoreName == <<83>>
StoreAddress == <<65, 100>>

(***************************************************************************)
(* Big-endian integers: binary.Write and binary.Read with                  *)
(* binary.BigEndian, big.Int.SetBytes, and big.Int.Bytes copied to the     *)
(* right of a fixed number of bytes.                                       *)
(***************************************************************************)
BigEndian(n, w) ==
  [i \in 1..w |-> IF w - i > 3 THEN 0 ELSE (n \div 256^(w - i)) % 256]

RECURSIVE Uint(_, _, _)
Uint(data, at, w) ==
  IF w = 0 THEN 0
  ELSE IF w = 1 THEN data[at]
  ELSE LET h == w \div 2
           hi == Uint(data, at, h)
           lo == Uint(data, at + h, w - h)
       IN IF hi = 0 THEN lo ELSE hi * 256^(w - h) + lo

(***************************************************************************)
(* The curve. P-256 is y^2 = x^3 - 3x + b over a prime field with          *)
(* p = 3 mod 4 and prime group order; the model keeps that shape on a      *)
(* field small enough to enumerate: y^2 = x^3 - 3x + 10 over GF(43), a     *)
(* group of prime order 37 with base point (6, 6). A coordinate still      *)
(* takes 32 bytes.                                                         *)
(***************************************************************************)
CurveP == 43
CurveB == 10
CurveN == 37
CoordinateSize == 32

BasePoint == [X |-> 6, Y |-> 6]

RECURSIVE PowMod(_, _)
PowMod(a, e) ==
  IF e = 0 THEN 1
  ELSE LET h == PowMod(a, e \div 2)
       IN IF e % 2 = 1 THEN (h * h * a) % CurveP ELSE (h * h) % CurveP

(* big.Int.ModSqrt for p = 3 mod 4: -1 stands for nil.                     *)
ModSqrt(a) ==
  LET y == PowMod(a, (CurveP + 1) \div 4)
  IN IF (y * y) % CurveP = a THEN y ELSE -1

IsOnCurve(x, y) ==
  /\ x \in 0..(CurveP - 1)
  /\ y \in 0..(CurveP - 1)
  /\ (y * y) % CurveP = (x * x * x + (CurveP - 3) * x + CurveB) % CurveP

CurvePoints ==
  {pt \in [X : 0..(CurveP - 1), Y : 0..(CurveP - 1)] : IsOnCurve(pt.X, pt.Y)}

(***************************************************************************)
(* binary.compressPoint, binary.decompressPoint and the two conversions    *)
(* built on them. Nil stands for the nil point.                            *)
(***************************************************************************)
compressPoint(pt) ==
  <<IF pt.Y % 2 = 0 THEN 2 ELSE 3>> \o BigEndian(pt.X, CoordinateSize)

FlipParity_Never(y, prefix) == y

FlipParity(y, prefix) == IF y % 2 # prefix % 2 THEN CurveP - y ELSE y

decompressPoint(compressed) ==
  IF Len(compressed) # 33 \/ compressed[1] \notin {2, 3} THEN Nil
  ELSE LET x == Uint(compressed, 2, CoordinateSize)
           ySquared == (x * x * x + (CurveP - 3) * x + CurveB) % CurveP
           root == ModSqrt(ySquared)
           y == FlipParity(root, compressed[1])
       IN IF root = -1 THEN Nil
          ELSE IF ~IsOnCurve(x, y) THEN Nil
          ELSE [X |-> x, Y |-> y]

RawCompressedToPublicKey(compressed) ==
  IF Len(compressed) # CompressedKeySize THEN [err |-> TRUE, key |-> Nil]
  ELSE LET pt == decompressPoint(compressed)
       IN [err |-> pt = Nil, key |-> pt]

PublicKeyToRawCompressed(publicKey) == compressPoint(publicKey)

(***************************************************************************)
(* The user's ephemeral key as it reaches the register: the bytes, and the *)
(* name the stores know them by. Two keys are valid, one is too short, one *)
(* has a parity byte that is neither 0x02 nor 0x03, one an x coordinate    *)
(* with no point on the curve.                                             *)
(***************************************************************************)
KeyInputs ==
  { [id |-> "k1", bytes |-> compressPoint(BasePoint)],
    [id |-> "k2", bytes |-> compressPoint([X |-> 0, Y |-> 15])],
    [id |-> "short", bytes |-> SubSeq(compressPoint(BasePoint), 1, CompressedKeySize - 1)],
    [id |-> "parity", bytes |-> <<4>> \o BigEndian(6, CoordinateSize)],
    [id |-> "offcurve", bytes |-> <<2>> \o BigEndian(1, CoordinateSize)] }

BadBase64 == [id |-> "notbase64"]

(***************************************************************************)
(* What the collaborators outside the process may answer.                  *)
(***************************************************************************)
SignerAnswers ==
  {[err |-> TRUE, len |-> 0]} \cup
  {[err |-> FALSE, len |-> n] : n \in {SignatureSize - 1, SignatureSize, SignatureSize + 1}}

NetAnswers == {"down", "ok", "lost"}

(***************************************************************************)
(* The inputs one issue call can meet: the key it is given and the answers *)
(* of the signer, the random source and the network. An input the call     *)
(* never reads, because an earlier step already failed, is fixed.          *)
(***************************************************************************)
GoodSignature == [err |-> FALSE, len |-> SignatureSize]

ValidKeys == {k \in KeyInputs : ~RawCompressedToPublicKey(k.bytes).err}

AnyKey == CHOOSE k \in ValidKeys : TRUE

Scenarios ==
  {[key |-> AnyKey, answer |-> a, randOk |-> TRUE, net |-> "ok"] :
      a \in SignerAnswers \ {GoodSignature}}
  \cup {[key |-> k, answer |-> GoodSignature, randOk |-> TRUE, net |-> "ok"] :
          k \in KeyInputs \ ValidKeys}
  \cup {[key |-> k, answer |-> GoodSignature, randOk |-> FALSE, net |-> "ok"] :
          k \in ValidKeys}
  \cup {[key |-> k, answer |-> GoodSignature, randOk |-> TRUE, net |-> n] :
          k \in ValidKeys, n \in NetAnswers}

BadBase64Scenario ==
  [key |-> BadBase64, answer |-> GoodSignature, randOk |-> TRUE, net |-> "ok"]

(***************************************************************************)
(* fmt.Sprintf("%04d") and fmt.Sscanf("%d") on strings, kept as sequences  *)
(* of characters.                                                          *)
(***************************************************************************)
DigitChars == <<"0", "1", "2", "3", "4", "5", "6", "7", "8", "9">>

IsDigit(c) == \E d \in 1..10 : DigitChars[d] = c

DigitVal(c) == (CHOOSE d \in 1..10 : DigitChars[d] = c) - 1

RECURSIVE FormatD(_)
FormatD(n) ==
  IF n < 10 THEN <<DigitChars[n + 1]>>
  ELSE FormatD(n \div 10) \o <<DigitChars[(n % 10) + 1]>>

Pad4(n) ==
  LET d == FormatD(n)
  IN [i \in 1..(4 - Len(d)) |-> "0"] \o d

Pad10(n) ==
  LET d == FormatD(n)
  IN [i \in 1..(10 - Len(d)) |-> "0"] \o d

RECURSIVE ScanDigits(_, _, _)
ScanDigits(s, i, acc) ==
  IF i <= Len(s) /\ IsDigit(s[i])
  THEN ScanDigits(s, i + 1, acc * 10 + DigitVal(s[i]))
  ELSE [n |-> i - 1, val |-> acc]

Sscanf(s) ==
  LET r == ScanDigits(s, 1, 0)
  IN IF r.n = 0 THEN [err |-> TRUE, val |-> 0] ELSE [err |-> FALSE, val |-> r.val]

DateStamp(t) == <<"2", "0", "2", "5", "0", "1", "0", DigitChars[(t % 9) + 2]>>

(***************************************************************************)
(* binary: the parsers of the textual fields.                              *)
(***************************************************************************)
parseZReportNumber(z) ==
  IF Len(z) < 2 \/ z[1] # "Z" THEN [err |-> TRUE, val |-> 0]
  ELSE Sscanf(Tail(z))

parseTransactionID(tx) ==
  IF Len(tx) < 11 \/ SubSeq(tx, 1, 2) # <<"T", "X">> THEN [err |-> TRUE, val |-> 0]
  ELSE Sscanf(SubSeq(tx, 11, Len(tx)))

parseVKN(vkn) == Sscanf(vkn)

parseReceiptSerial(f) ==
  IF Len(f) < 2 \/ f[1] # "F" THEN [err |-> TRUE, val |-> 0]
  ELSE Sscanf(Tail(f))

(***************************************************************************)
(* Amounts. A price, a line total and the total amount are float64 values  *)
(* in lira; the model keeps the number k of kurus and lets it stand for    *)
(* the float64 nearest to k/100, which is what a decimal literal of the    *)
(* configuration, a JSON number and float64(k)/100.0 all yield. A float64  *)
(* product or sum of such values is taken as the float64 nearest to the    *)
(* decimal result (exact for a quantity that is a power of two). The       *)
(* taxable amounts and the tax amounts are quotients by 1.1 and 1.2; they  *)
(* are kept exactly, in units of 1/TaxScale kurus.                         *)
(*                                                                         *)
(* ToKurus is uint32(x * 100) on the float64 x nearest to k/100: the       *)
(* product is rounded to float64 and then truncated. With                  *)
(* x = m * 2^(p - d - 52), m the 53-bit integer nearest to                 *)
(* k * 2^(52 - p + d) / 100, the remainder r of that division (in          *)
(* hundredths of a unit in the last place of x) tells whether x lies at or *)
(* above k/100 (the product is at least k) or below it by r/100 of its     *)
(* last place, which is r / 2^d of the last place of the float64 values    *)
(* just below k: the product rounds down to the float64 below k exactly    *)
(* when r exceeds half of 2^d.                                             *)
(***************************************************************************)
TaxScale == 66

RECURSIVE Log2Floor(_)
Log2Floor(k) == IF k < 2 THEN 0 ELSE 1 + Log2Floor(k \div 2)

RECURSIVE DoubleMod(_, _, _)
DoubleMod(r, t, m) ==
  IF t = 0 THEN r % m
  ELSE LET h == DoubleMod(1, t \div 2, m)
           sq == (h * h) % m
       IN IF t % 2 = 1 THEN (2 * sq * r) % m ELSE (sq * r) % m

ToKurus(k) ==
  IF k = 0 THEN 0
  ELSE LET p == Log2Floor(k)
           d == IF k * 64 >= 100 * 2^p THEN 6 ELSE 7
           R == DoubleMod(k % 200, 52 - (p - d), 200)
           r == R % 100
           odd == ((R - r) \div 100) % 2 = 1
           half == IF k = 2^p THEN 2^(d - 2) ELSE 2^(d - 1)
       IN IF r > 50 \/ (r = 50 /\ odd) THEN k
          ELSE IF r > half THEN k - 1 ELSE k

(* uint32(x * 100) on a taxable or tax amount, the quotient taken exactly. *)
TaxToKurus(a) == a \div TaxScale

(***************************************************************************)
(* binary.SerializeReceipt, field by field.                                *)
(***************************************************************************)
serializeItem(item) ==
  BigEndian(item.KisimID % 65536, 2) \o BigEndian(item.Quantity % 65536, 2)
  \o BigEndian(ToKurus(item.UnitPrice), 4) \o BigEndian(ToKurus(item.TotalPrice), 4)
  \o BigEndian(item.TaxRate % 256, 1)

RECURSIVE serializeItems(_)
serializeItems(items) ==
  IF items = <<>> THEN <<>>
  ELSE serializeItem(Head(items)) \o serializeItems(Tail(items))

serializeTaxBreakdown(tb) ==
  BigEndian(TaxToKurus(tb.Tax10Percent.TaxableAmount), 4)
  \o BigEndian(TaxToKurus(tb.Tax10Percent.TaxAmount), 4)
  \o BigEndian(TaxToKurus(tb.Tax20Percent.TaxableAmount), 4)
  \o BigEndian(TaxToKurus(tb.Tax20Percent.TaxAmount), 4)
  \o BigEndian(TaxToKurus(tb.TotalTax), 4)

SerializeReceipt(r) ==
  LET z == parseZReportNumber(r.ZReportNumber)
      tx == parseTransactionID(r.TransactionID)
      vkn == parseVKN(r.StoreVKN)
      f == parseReceiptSerial(r.ReceiptSerial)
  IN IF z.err \/ tx.err \/ vkn.err \/ f.err
     THEN [err |-> TRUE, bytes |-> <<>>]
     ELSE [err |-> FALSE,
           bytes |->
             BigEndian(MagicBytes, 2) \o <<FormatVersion, Reserved>>
             \o BigEndian(r.Timestamp, 8)
             \o BigEndian(z.val, 4) \o BigEndian(tx.val, 4) \o BigEndian(vkn.val, 4)
             \o BigEndian(Len(r.StoreName), 4) \o r.StoreName
             \o BigEndian(Len(r.StoreAddress), 4) \o r.StoreAddress
             \o BigEndian(ToKurus(r.TotalAmount), 4)
             \o BigEndian(Len(r.PaymentMethod), 4) \o r.PaymentMethod
             \o BigEndian(f.val, 4)
             \o BigEndian(Len(r.Items), 2)
             \o serializeItems(r.Items)
             \o serializeTaxBreakdown(r.TaxBreakdown)]

(***************************************************************************)
(* binary.DeserializeReceipt. A read past the end of the data is an error. *)
(* An amount of k kurus is decoded as float64(k) / 100.0.                  *)
(***************************************************************************)
deserializeItem(data, at) ==
  [KisimID |-> Uint(data, at, 2), UnitPrice |-> Uint(data, at + 4, 4),
   Quantity |-> Uint(data, at + 2, 2), TotalPrice |-> Uint(data, at + 8, 4),
   TaxRate |-> Uint(data, at + 12, 1)]

deserializeTaxBreakdown(data, at) ==
  [Tax10Percent |-> [TaxableAmount |-> Uint(data, at, 4) * TaxScale,
                     TaxAmount |-> Uint(data, at + 4, 4) * TaxScale],
   Tax20Percent |-> [TaxableAmount |-> Uint(data, at + 8, 4) * TaxScale,
                     TaxAmount |-> Uint(data, at + 12, 4) * TaxScale],
   TotalTax |-> Uint(data, at + 16, 4) * TaxScale]

DeserializeReceipt(data) ==
  LET nameAt == HeaderSize + 8 + 4 + 4 + 4 + 1
      nameLen == Uint(data, nameAt, 4)
      addrAt == nameAt + 4 + nameLen
      addrLen == Uint(data, addrAt, 4)
      totalAt == addrAt + 4 + addrLen
      payAt == totalAt + 4
      payLen == Uint(data, payAt, 4)
      serialAt == payAt + 4 + payLen
      countAt == serialAt + 4
      count == Uint(data, countAt, 2)
      itemsAt == countAt + 2
      taxAt == itemsAt + count * ItemSize
      timestamp == Uint(data, HeaderSize + 1, 8)
      complete ==
        /\ Len(data) >= nameAt + 3
        /\ Len(data) >= addrAt + 3
        /\ Len(data) >= payAt + 3
        /\ Len(data) >= countAt + 1
        /\ Len(data) >= taxAt + TaxBreakdownSize - 1
  IN IF Len(data) < HeaderSize THEN [err |-> TRUE, receipt |-> Nil]
     ELSE IF \/ Uint(data, 1, 2) # MagicBytes
             \/ data[3] # FormatVersion
             \/ data[4] # Reserved
             \/ ~complete
     THEN [err |-> TRUE, receipt |-> Nil]
     ELSE [err |-> FALSE,
           receipt |->
             [ZReportNumber |-> <<"Z">> \o Pad4(Uint(data, HeaderSize + 9, 4)),
              TransactionID |-> <<"T", "X">> \o DateStamp(timestamp)
                                  \o Pad4(Uint(data, HeaderSize + 13, 4)),
              Timestamp |-> timestamp,
              StoreVKN |-> Pad10(Uint(data, HeaderSize + 17, 4)),
              StoreName |-> SubSeq(data, nameAt + 4, nameAt + 3 + nameLen),
              StoreAddress |-> SubSeq(data, addrAt + 4, addrAt + 3 + addrLen),
              Items |-> [i \in 1..count |-> deserializeItem(data, itemsAt + (i - 1) * ItemSize)],
              TaxBreakdown |-> deserializeTaxBreakdown(data, taxAt),
              TotalAmount |-> Uint(data, totalAt, 4),
              PaymentMethod |-> SubSeq(data, payAt + 4, payAt + 3 + payLen),
              ReceiptSerial |-> <<"F">> \o Pad4(Uint(data, serialAt, 4))]]

(***************************************************************************)
(* binary.CreateSignedReceipt.                                             *)
(***************************************************************************)
CreateSignedReceipt_NoLengthCheck(binaryReceipt, signature) ==
  [err |-> FALSE, bytes |-> binaryReceipt \o signature]

CreateSignedReceipt(binaryReceipt, signature) ==
  IF Len(signature) # SignatureSize
  THEN [err |-> TRUE, bytes |-> <<>>]
  ELSE [err |-> FALSE, bytes |-> binaryReceipt \o signature]

(***************************************************************************)
(* CryptoService.GenerateReceiptHash: a 32-byte digest of the bytes.       *)
(***************************************************************************)
RECURSIVE SumBytes(_, _, _)
SumBytes(b, lo, hi) ==
  IF lo > hi THEN 0
  ELSE IF lo = hi THEN b[lo]
  ELSE (SumBytes(b, lo, (lo + hi) \div 2)
        + SumBytes(b, ((lo + hi) \div 2) + 1, hi)) % 65521

Digest(d, n) == [i \in 1..HashSize |-> (d + i * (n + 1)) % 256]

GenerateReceiptHash(b) == Digest(SumBytes(b, 1, Len(b)), Len(b))

(***************************************************************************)
(* RevenueAuthorityService.SignHash. The mock answers 64 bytes, r = hash;  *)
(* the HTTP client returns whatever the service answered.                  *)
(***************************************************************************)
MockSignHash(binaryHash) ==
  IF Len(binaryHash) # HashSize
  THEN [err |-> TRUE, sig |-> <<>>]
  ELSE [err |-> FALSE, sig |-> binaryHash \o [i \in 1..32 |-> 109]]

RealSignHash(binaryHash, answer) ==
  IF Len(binaryHash) # HashSize \/ answer.err
  THEN [err |-> TRUE, sig |-> <<>>]
  ELSE [err |-> FALSE, sig |-> [i \in 1..answer.len |-> 7]]

SignHash(binaryHash, answer) ==
  IF cfg.StandaloneMode THEN MockSignHash(binaryHash)
  ELSE RealSignHash(binaryHash, answer)

(***************************************************************************)
(* The group law of the curve (Curve.ScalarMult); Nil is the point at      *)
(* infinity.                                                               *)
(***************************************************************************)
PointAdd(a, b) ==
  IF a = Nil THEN b
  ELSE IF b = Nil THEN a
  ELSE IF a.X = b.X /\ (a.Y + b.Y) % CurveP = 0 THEN Nil
  ELSE LET inv(v) == PowMod(v, CurveP - 2)
           lam == IF a = b
                  THEN ((3 * a.X * a.X + CurveP - 3) * inv((2 * a.Y) % CurveP)) % CurveP
                  ELSE ((b.Y - a.Y + CurveP) * inv((b.X - a.X + CurveP) % CurveP)) % CurveP
           x == (lam * lam + 2 * CurveP - a.X - b.X) % CurveP
       IN [X |-> x, Y |-> (lam * (a.X - x + CurveP) + CurveP - a.Y) % CurveP]

RECURSIVE ScalarMult(_, _)
ScalarMult(pt, k) ==
  IF k = 0 THEN Nil
  ELSE LET h == ScalarMult(pt, k \div 2)
           double == PointAdd(h, h)
       IN IF k % 2 = 1 THEN PointAdd(double, pt) ELSE double

(***************************************************************************)
(* HKDF-SHA256 and AES-GCM, symbolically: the derived key is determined by *)
(* the secret and the info label, and only the key and nonce that sealed a *)
(* ciphertext open it. elliptic.Marshal writes the uncompressed point.     *)
(***************************************************************************)
Hkdf(secret, info) == [secret |-> secret, info |-> info]

Seal(key, nonce, plaintext) == [key |-> key, nonce |-> nonce, plaintext |-> plaintext]

Open(key, nonce, ciphertext) ==
  IF ciphertext.key = key /\ ciphertext.nonce = nonce
  THEN [err |-> FALSE, plaintext |-> ciphertext.plaintext]
  ELSE [err |-> TRUE, plaintext |-> <<>>]

Marshal(pt) == <<4>> \o BigEndian(pt.X, CoordinateSize) \o BigEndian(pt.Y, CoordinateSize)

Unmarshal(b) ==
  IF Len(b) # 2 * CoordinateSize + 1 \/ b[1] # 4 THEN Nil
  ELSE LET x == Uint(b, 2, CoordinateSize)
           y == Uint(b, 2 + CoordinateSize, CoordinateSize)
       IN IF IsOnCurve(x, y) THEN [X |-> x, Y |-> y] ELSE Nil

(* big.Int.Bytes: the big-endian bytes without leading zero bytes.         *)
BigIntBytes(b) ==
  LET set == {i \in 1..Len(b) : b[i] # 0}
  IN IF set = {} THEN <<>>
     ELSE SubSeq(b, CHOOSE i \in set : \A j \in set : i <= j, Len(b))

SharedSecret(pt, d) == BigIntBytes(BigEndian(ScalarMult(pt, d).X, CoordinateSize))

(***************************************************************************)
(* CryptoService.encryptWithPublicKey and EncryptWithUserEphemeralKey.     *)
(* rnd is what rand.Reader yields: whether it can be read, the temporary   *)
(* private key and the nonce. The result is the temporary public key, the  *)
(* nonce and the ciphertext.                                               *)
(***************************************************************************)
SenderInfo == "Privacy-preserving-ECDH"

AesKeySize == 32

(* The 32 bytes io.ReadFull(hkdf, encryptionKey) writes into the buffer.   *)
KeyBytes(key) ==
  [i \in 1..AesKeySize |-> 1 + ((SumBytes(key.secret, 1, Len(key.secret)) + i) % 255)]

Zeroed(buffer) == [i \in 1..Len(buffer) |-> 0]

(* The result of the call, and what the buffers sharedSecret and           *)
(* encryptionKey hold when it returns (empty when never allocated).        *)
encryptWithPublicKey(binaryData, userEphemeralPublicKey, rnd) ==
  IF ~rnd.ok
  THEN [err |-> TRUE, bytes |-> <<>>, sharedSecret |-> <<>>, encryptionKey |-> <<>>]
  ELSE LET sharedSecret == SharedSecret(userEphemeralPublicKey, rnd.d)
           encryptionKey == Hkdf(sharedSecret, SenderInfo)
       IN IF ~rnd.nonceOk
          THEN [err |-> TRUE, bytes |-> <<>>, sharedSecret |-> sharedSecret,
                encryptionKey |-> KeyBytes(encryptionKey)]
          ELSE [err |-> FALSE,
                bytes |-> [tempPublicKey |-> Marshal(ScalarMult(BasePoint, rnd.d)),
                           nonce |-> rnd.nonce,
                           sealed |-> Seal(encryptionKey, rnd.nonce, binaryData)],
                sharedSecret |-> Zeroed(sharedSecret),
                encryptionKey |-> Zeroed(KeyBytes(encryptionKey))]

EncryptWithUserEphemeralKey(binaryData, userEphemeralKeyCompressed, rnd) ==
  LET userPublicKey == RawCompressedToPublicKey(userEphemeralKeyCompressed)
  IN IF userPublicKey.err THEN [err |-> TRUE, bytes |-> <<>>]
     ELSE encryptWithPublicKey(binaryData, userPublicKey.key, rnd)

(***************************************************************************)
(* CryptoService.eciesDecrypt with the recipient's private key.            *)
(***************************************************************************)
GcmTagSize == 16

eciesDecrypt(encryptedData, recipientPrivateKey) ==
  LET ephemeralPublicKey == Unmarshal(encryptedData.tempPublicKey)
      encryptionKey == Hkdf(SharedSecret(ephemeralPublicKey, recipientPrivateKey),
                            "ECIES-encryption")
      opened == Open(encryptionKey, encryptedData.nonce, encryptedData.sealed)
      failed == [err |-> TRUE, plaintext |-> <<>>, key |-> Nil]
  IN IF Len(encryptedData.tempPublicKey) + Len(encryptedData.nonce)
          + Len(encryptedData.sealed.plaintext) + GcmTagSize < 2 * CoordinateSize + 1 + 12
     THEN failed
     ELSE IF ephemeralPublicKey = Nil THEN failed
     ELSE IF opened.err THEN [failed EXCEPT !.key = encryptionKey]
     ELSE [err |-> FALSE, plaintext |-> opened.plaintext, key |-> encryptionKey]

(* The draw of rand.Reader in an issue: it fails or yields fresh values.   *)
Drawn(randOk) ==
  [ok |-> randOk, nonceOk |-> TRUE, d |-> 2, nonce |-> [i \in 1..12 |-> 9]]

(***************************************************************************)
(* ReceiptBankService.SubmitReceipt. The mock stores under the key and     *)
(* never fails. The HTTP client posts to the receipt bank with             *)
(* receipt_id = time.Now().Unix(); the bank's SubmitHandler validates,     *)
(* calls Store and answers; the client fails when the bank is unreachable, *)
(* when the answer does not arrive or cannot be read, or on a status other *)
(* than 200/201.                                                           *)
(***************************************************************************)
MockSubmitReceipt(ms, key, data) ==
  [err |-> FALSE, mockStorage |-> MapPut(ms, key.id, data)]

RealSubmitReceipt(st, key, data, t, net) ==
  IF net = "down" THEN [err |-> TRUE, receipts |-> st]
  ELSE IF ~ValidateEphemeralKey(key.id) THEN [err |-> TRUE, receipts |-> st]
  ELSE LET r == [EphemeralKey |-> key.id, EncryptedData |-> data,
                 ReceiptID |-> t, Timestamp |-> t]
           out == Store(st, r)
           status == SubmitStatus(out.err)
       IN [err |-> (net = "lost" \/ status \notin {200, 201}),
           receipts |-> out.receipts]

SubmitReceipt(st, ms, key, data, t, net) ==
  IF cfg.StandaloneMode
  THEN LET out == MockSubmitReceipt(ms, key, data)
       IN [err |-> out.err, receipts |-> st, mockStorage |-> out.mockStorage]
  ELSE LET out == RealSubmitReceipt(st, key, data, t, net)
       IN [err |-> out.err, receipts |-> out.receipts, mockStorage |-> ms]

(***************************************************************************)
(* models.Receipt as StartNewReceipt allocates it.                         *)
(***************************************************************************)
ZeroTax ==
  [Tax10Percent |-> [TaxableAmount |-> 0, TaxAmount |-> 0],
   Tax20Percent |-> [TaxableAmount |-> 0, TaxAmount |-> 0],
   TotalTax |-> 0]

NewReceipt ==
  [ZReportNumber |-> <<>>, TransactionID |-> <<>>, Timestamp |-> 0,
   StoreVKN |-> <<>>, StoreName |-> <<>>, StoreAddress |-> <<>>,
   Items |-> <<>>, TaxBreakdown |-> ZeroTax, TotalAmount |-> 0,
   PaymentMethod |-> <<>>, ReceiptSerial |-> <<>>]

(***************************************************************************)
(* CashRegister.calculateTotals.                                           *)
(***************************************************************************)
RECURSIVE SumTotal(_)
SumTotal(items) ==
  IF items = <<>> THEN 0 ELSE Head(items).TotalPrice + SumTotal(Tail(items))

RECURSIVE SumBase(_, _)
SumBase(items, rate) ==
  IF items = <<>> THEN 0
  ELSE (IF Head(items).TaxRate = rate
        THEN (Head(items).TotalPrice * TaxScale * 100) \div (100 + rate) ELSE 0)
       + SumBase(Tail(items), rate)

calculateTotals_OneRate(r) ==
  LET tax10Base == SumBase(r.Items, 10)
      tax20Base == SumBase(r.Items, 20)
      t10 == [TaxableAmount |-> tax10Base, TaxAmount |-> (tax10Base * 10) \div 100]
      t20 == [TaxableAmount |-> tax20Base, TaxAmount |-> (tax20Base * 10) \div 100]
  IN [r EXCEPT !.TaxBreakdown =
                 [Tax10Percent |-> t10, Tax20Percent |-> t20,
                  TotalTax |-> t10.TaxAmount + t20.TaxAmount],
               !.TotalAmount = SumTotal(r.Items)]

calculateTotals(r) ==
  LET tax10Base == SumBase(r.Items, 10)
      tax20Base == SumBase(r.Items, 20)
      t10 == [TaxableAmount |-> tax10Base, TaxAmount |-> (tax10Base * 10) \div 100]
      t20 == [TaxableAmount |-> tax20Base, TaxAmount |-> (tax20Base * 20) \div 100]
  IN [r EXCEPT !.TaxBreakdown =
                 [Tax10Percent |-> t10, Tax20Percent |-> t20,
                  TotalTax |-> t10.TaxAmount + t20.TaxAmount],
               !.TotalAmount = SumTotal(r.Items)]

(***************************************************************************)
(* Step 1 of IssueCurrentReceipt (and FinalizeCurrentReceipt): stamp the   *)
(* metadata and compute the totals.                                        *)
(***************************************************************************)
Finalized(r, counter, t) ==
  calculateTotals(
    [r EXCEPT !.ZReportNumber = <<"Z">> \o Pad4(ZReportCounter),
              !.TransactionID = <<"T", "X">> \o DateStamp(t) \o Pad4(counter),
              !.Timestamp = t,
              !.StoreVKN = cfg.StoreVKN,
              !.StoreName = StoreName,
              !.StoreAddress = StoreAddress,
              !.ReceiptSerial = <<"F">> \o Pad4(counter)])

(***************************************************************************)
(* fmt.Errorf("no active receipt - call StartNewReceipt first"), returned  *)
(* by every operation that finds cr.currentReceipt == nil.                 *)
(***************************************************************************)
NoActiveReceipt_Silent == ErrNone

NoActiveReceipt == "no active receipt"

(***************************************************************************)
(* CashRegister.validateReceipt: the error, or ErrNone.                    *)
(***************************************************************************)
validateReceipt(r) ==
  IF r = Nil THEN "receipt cannot be nil"
  ELSE IF Len(r.Items) = 0 THEN "receipt must have at least one item"
  ELSE IF r.PaymentMethod = <<>> THEN "receipt must have a payment method"
  ELSE IF r.TotalAmount <= 0 THEN "receipt total must be greater than zero"
  ELSE ErrNone

(***************************************************************************)
(* IssueCurrentReceipt, one definition per step. Every step gets the       *)
(* context built so far and yields the outcome of the whole call:          *)
(* the error (named by the failing step), the returned receipt, the new    *)
(* currentReceipt and receiptCounter, the steps invoked, and the stores.   *)
(***************************************************************************)
IssueFails(c, step) ==
  [err |-> step, ret |-> Nil, cur |-> c.cur, counter |-> c.counter,
   calls |-> c.calls, receipts |-> c.receipts, mockStorage |-> c.mockStorage,
   binary |-> c.binary, signature |-> c.signature, signed |-> c.signed,
   key |-> c.key.id]

IssueSubmit_KeepsCurrent(c) ==
  LET sub == SubmitReceipt(c.receipts, c.mockStorage, c.key, c.encrypted, c.t, c.net)
      c2 == [c EXCEPT !.calls = Append(@, "submit"),
                      !.receipts = sub.receipts,
                      !.mockStorage = sub.mockStorage]
  IN IF sub.err THEN IssueFails(c2, "submit")
     ELSE [err |-> ErrNone, ret |-> c2.cur, cur |-> c2.cur, counter |-> c2.counter,
           calls |-> c2.calls, receipts |-> c2.receipts,
           mockStorage |-> c2.mockStorage, binary |-> c2.binary,
           signature |-> c2.signature, signed |-> c2.signed, key |-> c2.key.id]

IssueSubmit(c) ==
  LET sub == SubmitReceipt(c.receipts, c.mockStorage, c.key, c.encrypted, c.t, c.net)
      c2 == [c EXCEPT !.calls = Append(@, "submit"),
                      !.receipts = sub.receipts,
                      !.mockStorage = sub.mockStorage]
  IN IF sub.err THEN IssueFails(c2, "submit")
     ELSE [err |-> ErrNone, ret |-> c2.cur, cur |-> Nil, counter |-> c2.counter,
           calls |-> c2.calls, receipts |-> c2.receipts,
           mockStorage |-> c2.mockStorage, binary |-> c2.binary,
           signature |-> c2.signature, signed |-> c2.signed, key |-> c2.key.id]

IssueEncrypt_IgnoresError(c) ==
  LET enc == EncryptWithUserEphemeralKey(c.signed, c.key.bytes, Drawn(c.randOk))
      c2 == [c EXCEPT !.calls = Append(@, "encrypt"), !.encrypted = enc.bytes]
  IN IssueSubmit(c2)

IssueEncrypt(c) ==
  LET enc == EncryptWithUserEphemeralKey(c.signed, c.key.bytes, Drawn(c.randOk))
      c2 == [c EXCEPT !.calls = Append(@, "encrypt"), !.encrypted = enc.bytes]
  IN IF enc.err THEN IssueFails(c2, "encrypt") ELSE IssueSubmit(c2)

IssueAssemble_IgnoresError(c) ==
  LET sr == CreateSignedReceipt(c.binary, c.signature)
      c2 == [c EXCEPT !.calls = Append(@, "assemble"), !.signed = sr.bytes]
  IN IssueEncrypt(c2)

IssueAssemble(c) ==
  LET sr == CreateSignedReceipt(c.binary, c.signature)
      c2 == [c EXCEPT !.calls = Append(@, "assemble"), !.signed = sr.bytes]
  IN IF sr.err THEN IssueFails(c2, "assemble") ELSE IssueEncrypt(c2)

IssueSign_RollsBack(c) ==
  LET h == GenerateReceiptHash(c.binary)
      s == SignHash(h, c.answer)
      c2 == [c EXCEPT !.calls = @ \o <<"hash", "sign">>, !.signature = s.sig]
  IN IF s.err THEN IssueFails([c2 EXCEPT !.counter = @ - 1], "sign")
     ELSE IssueAssemble(c2)

IssueSign(c) ==
  LET h == GenerateReceiptHash(c.binary)
      s == SignHash(h, c.answer)
      c2 == [c EXCEPT !.calls = @ \o <<"hash", "sign">>, !.signature = s.sig]
  IN IF s.err THEN IssueFails(c2, "sign") ELSE IssueAssemble(c2)

IssueSerialize(c) ==
  LET bin == SerializeReceipt(c.cur)
      c2 == [c EXCEPT !.calls = Append(@, "serialize"), !.binary = bin.bytes]
  IN IF bin.err THEN IssueFails(c2, "serialize") ELSE IssueSign(c2)

IssueValidate(c) ==
  LET c2 == [c EXCEPT !.calls = Append(@, "validate")]
  IN IF validateReceipt(c.cur) # ErrNone
     THEN IssueFails(c2, "validation") ELSE IssueSerialize(c2)

HasNoItems_Never(r) == FALSE

HasNoItems(r) == Len(r.Items) = 0

IssueCurrentReceipt(cur, counter, st, ms, t, key, answer, randOk, net) ==
  LET c0 == [cur |-> cur, counter |-> counter, receipts |-> st, mockStorage |-> ms,
             t |-> t, key |-> key, answer |-> answer, randOk |-> randOk,
             net |-> net, calls |-> <<>>, binary |-> <<>>, signature |-> <<>>,
             signed |-> <<>>, encrypted |-> <<>>]
  IN IF cur = Nil THEN IssueFails(c0, NoActiveReceipt)
     ELSE IF HasNoItems(cur) THEN IssueFails(c0, "no items")
     ELSE IssueValidate([c0 EXCEPT !.cur = Finalized(cur, counter, t),
                                   !.counter = counter + 1])

(***************************************************************************)
(* CashRegisterHandler.cancelTransaction -> CancelCurrentReceipt.          *)
(***************************************************************************)
cancelTransaction_Keeps(cur) == cur

cancelTransaction(cur) == Nil

(***************************************************************************)
(* What a call reports in last.                                            *)
(***************************************************************************)
Report(op, err) ==
  [op |-> op, err |-> err, status |-> 0, ret |-> Nil, calls |-> <<>>,
   binary |-> <<>>, signature |-> <<>>, signed |-> <<>>,
   before |-> Nil, key |-> ""]

IssueReport(op, status, out, before) ==
  [op |-> op, err |-> out.err, status |-> status, ret |-> out.ret,
   calls |-> out.calls, binary |-> out.binary, signature |-> out.signature,
   signed |-> out.signed, before |-> before, key |-> out.key]

(***************************************************************************)
(* NewCashRegister, with the configuration it was given.                   *)
(***************************************************************************)
InitRegister ==
  /\ currentReceipt = Nil
  /\ receiptCounter = 1
  /\ mockStorage = EmptyMap
  /\ last = Report("new", ErrNone)

Init ==
  /\ InitStorage
  /\ InitRegister
  /\ cfg \in [StoreVKN : StoreVKNs, StandaloneMode : BOOLEAN]

InitStore ==
  /\ InitStorage
  /\ InitRegister
  /\ cfg = [StoreVKN |-> <<"1", "2">>, StandaloneMode |-> FALSE]

bankUntouched == UNCHANGED <<mu, now, pc, req, loc, res, resp, delivered, gone>>

(***************************************************************************)
(* The operations of CashRegister.                                         *)
(***************************************************************************)
StartNewReceipt ==
  /\ currentReceipt' = NewReceipt
  /\ last' = Report("start", ErrNone)
  /\ UNCHANGED <<cfg, receiptCounter, mockStorage, receipts>>
  /\ bankUntouched

MatchingLine_AnyPrice(items, kisimID, unitPrice) ==
  {i \in 1..Len(items) : items[i].KisimID = kisimID}

MatchingLine(items, kisimID, unitPrice) ==
  {i \in 1..Len(items) : items[i].KisimID = kisimID /\ items[i].UnitPrice = unitPrice}

AddedItem(items, kisimID, quantity, customUnitPrice) ==
  LET info == KisimLookup[kisimID]
      unitPrice == IF customUnitPrice > 0 THEN customUnitPrice ELSE info.PresetPrice
      hit == MatchingLine(items, kisimID, unitPrice)
  IN IF hit # {}
     THEN LET i == CHOOSE j \in hit : \A h \in hit : j <= h
          IN [items EXCEPT ![i] =
                [@ EXCEPT !.Quantity = @ + quantity,
                          !.TotalPrice = items[i].UnitPrice * (items[i].Quantity + quantity)]]
     ELSE Append(items, [KisimID |-> kisimID, UnitPrice |-> unitPrice,
                         Quantity |-> quantity, TotalPrice |-> unitPrice * quantity,
                         TaxRate |-> info.TaxRate])

WithinBounds(items, lines, qty) ==
  /\ Len(items) <= lines
  /\ \A i \in 1..Len(items) : items[i].Quantity <= qty

(* AddItem, explored while the receipt has at most `lines` lines of at     *)
(* most `qty` pieces and the counter is below `cap`.                       *)
AddItemUpTo(kisimID, quantity, customUnitPrice, lines, qty, cap) ==
  /\ IF currentReceipt = Nil
     THEN /\ last' = Report("add", NoActiveReceipt)
          /\ currentReceipt' = currentReceipt
     ELSE IF kisimID \notin DOMAIN KisimLookup
     THEN /\ last' = Report("add", "unknown KISIM ID")
          /\ currentReceipt' = currentReceipt
     ELSE LET items == AddedItem(currentReceipt.Items, kisimID, quantity, customUnitPrice)
          IN /\ WithinBounds(items, lines, qty)
             /\ receiptCounter < cap
             /\ currentReceipt' = [currentReceipt EXCEPT !.Items = items]
             /\ last' = Report("add", ErrNone)
  /\ UNCHANGED <<cfg, receiptCounter, mockStorage, receipts>>
  /\ bankUntouched

AddItem(kisimID, quantity, customUnitPrice) ==
  AddItemUpTo(kisimID, quantity, customUnitPrice, MaxItems, MaxQuantity, MaxCounter)

SetPaymentMethod(method) ==
  /\ IF currentReceipt = Nil
     THEN /\ last' = Report("payment", NoActiveReceipt)
          /\ currentReceipt' = currentReceipt
     ELSE /\ currentReceipt' = [currentReceipt EXCEPT !.PaymentMethod = method]
          /\ last' = Report("payment", ErrNone)
  /\ UNCHANGED <<cfg, receiptCounter, mockStorage, receipts>>
  /\ bankUntouched

FinalizeUpTo(cap) ==
  /\ IF currentReceipt = Nil
     THEN /\ last' = Report("finalize", NoActiveReceipt)
          /\ UNCHANGED <<currentReceipt, receiptCounter>>
     ELSE IF Len(currentReceipt.Items) = 0
     THEN /\ last' = Report("finalize", "no items")
          /\ UNCHANGED <<currentReceipt, receiptCounter>>
     ELSE /\ receiptCounter < cap
          /\ last' = [Report("finalize", ErrNone) EXCEPT
                        !.ret = Finalized(currentReceipt, receiptCounter, now),
                        !.before = currentReceipt]
          /\ receiptCounter' = receiptCounter + 1
          /\ currentReceipt' = Nil
  /\ UNCHANGED <<cfg, mockStorage, receipts>>
  /\ bankUntouched

FinalizeCurrentReceipt == FinalizeUpTo(MaxCounter)

CancelCurrentReceipt ==
  /\ currentReceipt' = Nil
  /\ last' = Report("cancel", ErrNone)
  /\ UNCHANGED <<cfg, receiptCounter, mockStorage, receipts>>
  /\ bankUntouched

(***************************************************************************)
(* IssueCurrentReceipt called on the register itself, as the tests do.     *)
(***************************************************************************)
IssueCallUpTo(key, answer, randOk, net, cap) ==
  /\ \E out \in {IssueCurrentReceipt(currentReceipt, receiptCounter, receipts,
                                      mockStorage, now, key, answer, randOk, net)} :
        /\ out.counter <= cap
        /\ currentReceipt' = out.cur
        /\ receiptCounter' = out.counter
        /\ receipts' = out.receipts
        /\ mockStorage' = out.mockStorage
        /\ last' = IssueReport("issue", 0, out, currentReceipt)
  /\ UNCHANGED cfg
  /\ bankUntouched

IssueCall(key, answer, randOk, net) ==
  IssueCallUpTo(key, answer, randOk, net, MaxCounter)

(***************************************************************************)
(* CashRegisterHandler.ProcessTransaction: POST /api/transaction/process.  *)
(***************************************************************************)
ProcessTransaction(key, answer, randOk, net) ==
  /\ IF currentReceipt = Nil
     THEN /\ last' = [Report("process", "No active transaction") EXCEPT !.status = 400]
          /\ UNCHANGED <<currentReceipt, receiptCounter, receipts, mockStorage>>
     ELSE IF key = BadBase64
     THEN /\ currentReceipt' = cancelTransaction(currentReceipt)
          /\ last' = [Report("process", "Invalid ephemeral key format") EXCEPT
                        !.status = 400, !.before = currentReceipt]
          /\ UNCHANGED <<receiptCounter, receipts, mockStorage>>
     ELSE \E out \in {IssueCurrentReceipt(currentReceipt, receiptCounter, receipts,
                                           mockStorage, now, key, answer, randOk, net)} :
             /\ out.counter <= MaxCounter
             /\ receiptCounter' = out.counter
             /\ receipts' = out.receipts
             /\ mockStorage' = out.mockStorage
             /\ IF out.err # ErrNone
                THEN /\ currentReceipt' = cancelTransaction(out.cur)
                     /\ last' = IssueReport("process", 500, out, currentReceipt)
                ELSE /\ currentReceipt' = out.cur
                     /\ last' = IssueReport("process", 200, out, currentReceipt)
  /\ UNCHANGED cfg
  /\ bankUntouched

RegTick ==
  /\ now < MaxRegTime
  /\ now' = now + 1
  /\ UNCHANGED <<receipts, mu, pc, req, loc, res, resp, delivered, gone>>
  /\ UNCHANGED regVars

RegNext ==
  \/ RegTick
  \/ StartNewReceipt
  \/ \E k \in KisimInputs, q \in QuantityInputs, p \in PriceInputs : AddItem(k, q, p)
  \/ \E m \in PaymentInputs : SetPaymentMethod(m)
  \/ FinalizeCurrentReceipt
  \/ CancelCurrentReceipt
  \/ \E e \in Scenarios : IssueCall(e.key, e.answer, e.randOk, e.net)
  \/ \E e \in Scenarios \cup {BadBase64Scenario} :
        ProcessTransaction(e.key, e.answer, e.randOk, e.net)

StoreNext == StoreStep /\ UNCHANGED regVars

SpecStore == InitStore /\ [][StoreNext]_vars

SpecReg == Init /\ [][RegNext]_vars

(***************************************************************************)
(* Steps of the store processes, as seen by the properties.                *)
(***************************************************************************)
LookupStep(p) == pc[p] = "retr_lookup" /\ pc'[p] # "retr_lookup"

CollectReturns(p) == pc[p] = "retr_unlock" /\ pc'[p] = "idle"

DeleteStep(p) == pc[p] = "retr_delete" /\ pc'[p] = "retr_unlock"

StoreBodyStep(p) == pc[p] = "store_body" /\ pc'[p] = "store_unlock"

SubmitReturns(p) == pc[p] = "store_unlock" /\ pc'[p] = "idle"

SweepStep == pc[Sweeper] = "clean_body" /\ pc'[Sweeper] = "clean_unlock"

(***************************************************************************)
(* C1: collection is at-most-once. Once a collect of key k has returned    *)
(* the entry, every later collect of k that no new successful submit for k *)
(* precedes finds nothing: Retrieve returns "receipt not found" and the    *)
(* handler answers 404 without a payload.                                  *)
(***************************************************************************)
C1_CollectAtMostOnce ==
  [][\A p \in Collectors :
       /\ (LookupStep(p) /\ gone[req[p].EphemeralKey] = "collected")
            => (res'[p] = ErrNotFound /\ pc'[p] = "retr_unlock"
                /\ receipts' = receipts)
       /\ (CollectReturns(p) /\ res[p] = ErrNotFound)
            => (resp'.status = 404 /\ "EncryptedData" \notin DOMAIN resp')
    ]_vars

C1_Witness ==
  /\ resp.kind = "collect"
  /\ resp.status = 404
  /\ gone[resp.EphemeralKey] = "collected"

(***************************************************************************)
(* C2: under every interleaving of the collecting clients, the submitting  *)
(* client and the cleanup routine, the entry stored by one submit is       *)
(* returned by at most one collect.                                        *)
(***************************************************************************)
C2_OneCollectPerSubmit == \A k \in EphemeralKeys : delivered[k] <= 1

C2_Witness ==
  \E k \in EphemeralKeys :
    /\ delivered[k] = 1
    /\ pc["c1"] = "retr_unlock" /\ req["c1"].EphemeralKey = k
    /\ res["c1"] = ErrNotFound
    /\ pc["c2"] = "retr_lock" /\ req["c2"].EphemeralKey = k
    /\ pc["s1"] = "store_lock" /\ req["s1"].EphemeralKey = k

(***************************************************************************)
(* Steps of the register, as seen by the properties: every operation       *)
(* writes its report to last, and only the clock leaves last alone.        *)
(***************************************************************************)
IssueOps == {"issue", "process"}

IssueStep(op) == last'.op = op /\ now' = now

Pipeline ==
  <<"validate", "serialize", "hash", "sign", "assemble", "encrypt", "submit">>

StepError(step) ==
  CASE step = "validate" -> "validation"
    [] step = "hash" -> "sign"
    [] OTHER -> step

PipelineErrors ==
  {"validation", "serialize", "sign", "assemble", "encrypt", "submit"}

Invoked(report, step) == \E i \in 1..Len(report.calls) : report.calls[i] = step

storesUnchanged == receipts' = receipts /\ mockStorage' = mockStorage

C5_FailedIssueLeavesNoEntry ==
  [][\A op \in IssueOps :
       (IssueStep(op) /\ last'.err # ErrNone) => storesUnchanged
    ]_vars

(***************************************************************************)
(* C5, amended: within one issue call the steps run in the order validate, *)
(* serialize, hash, sign, assemble, encrypt, submit, each at most once;    *)
(* the signer is invoked only after validation and serialization           *)
(* succeeded, submit only after every earlier step succeeded, and an       *)
(* issuance that fails before the submit step leaves no entry in the       *)
(* store. (A submit whose answer is lost fails the issuance although the   *)
(* receipt bank has stored the entry.)                                     *)
(***************************************************************************)
C5_PipelineOrder ==
  [][\A op \in IssueOps :
       IssueStep(op) =>
         /\ Len(last'.calls) <= Len(Pipeline)
         /\ last'.calls = SubSeq(Pipeline, 1, Len(last'.calls))
         /\ Invoked(last', "sign") =>
               /\ validateReceipt(Finalized(currentReceipt, receiptCounter, now)) = ErrNone
               /\ ~SerializeReceipt(Finalized(currentReceipt, receiptCounter, now)).err
               /\ last'.binary # <<>>
         /\ Invoked(last', "submit") =>
               /\ Len(last'.signature) = SignatureSize
               /\ last'.signed = last'.binary \o last'.signature
               /\ \A k \in (DOMAIN receipts' \ DOMAIN receipts)
                            \cup (DOMAIN mockStorage' \ DOMAIN mockStorage) :
                     \E v \in ValidKeys : v.id = k
         /\ last'.err = ErrNone => last'.calls = Pipeline
         /\ ~Invoked(last', "submit") => storesUnchanged
    ]_vars

C5_Witness ==
  /\ last.op = "issue"
  /\ last.err = "encrypt"
  /\ last.calls = SubSeq(Pipeline, 1, 6)
  /\ receipts = EmptyMap
  /\ mockStorage = EmptyMap

(***************************************************************************)
(* C6: when the signer returns a signature that is not exactly 64 bytes    *)
(* long, the assembler rejects it, issue fails at the assemble step and    *)
(* submit is never invoked for that issuance, so the stores are unchanged; *)
(* for a 64-byte signature the assembler returns the binary receipt        *)
(* followed by the signature.                                              *)
(***************************************************************************)
C6_SignatureLength ==
  [][\A op \in IssueOps :
       (IssueStep(op) /\ Invoked(last', "assemble")) =>
         IF Len(last'.signature) # SignatureSize
         THEN /\ last'.err = "assemble"
              /\ last'.ret = Nil
              /\ ~Invoked(last', "encrypt")
              /\ ~Invoked(last', "submit")
              /\ storesUnchanged
         ELSE /\ last'.err # "assemble"
              /\ last'.signed = last'.binary \o last'.signature
              /\ Len(last'.signed) = Len(last'.binary) + SignatureSize
    ]_vars

C6_Witness ==
  /\ last.op = "issue"
  /\ last.err = "assemble"
  /\ Len(last.signature) = SignatureSize - 1
  /\ last.binary # <<>>

(***************************************************************************)
(* C7: an entry stays in the store, unchanged, until a collect of its key  *)
(* removes it or a sweep finds it older than the maximum age; no other     *)
(* step, in particular no later submit for the same key, removes or        *)
(* replaces it.                                                            *)
(***************************************************************************)
C7_EntryStaysUntilCollectedOrSwept ==
  [][\A k \in DOMAIN receipts :
       \/ (k \in DOMAIN receipts' /\ receipts'[k] = receipts[k])
       \/ \E p \in Collectors : DeleteStep(p) /\ req[p].EphemeralKey = k
       \/ (SweepStep /\ now - receipts[k].Timestamp > MaxReceiptAge)
    ]_vars

(***************************************************************************)
(* C8: expiry independence. A sweep leaves absent keys absent (a sweep     *)
(* after a collect deletes nothing twice and completes), removes every     *)
(* entry older than the maximum age, and a collect of a swept key finds    *)
(* nothing.                                                                *)
(***************************************************************************)
C8_ExpiryIndependence ==
  [][/\ SweepStep =>
          \A k \in EphemeralKeys :
            /\ k \notin DOMAIN receipts => k \notin DOMAIN receipts'
            /\ (k \in DOMAIN receipts
                 /\ now - receipts[k].Timestamp > MaxReceiptAge)
                  => k \notin DOMAIN receipts'
     /\ \A p \in Collectors :
          (LookupStep(p) /\ gone[req[p].EphemeralKey] = "swept")
            => (res'[p] = ErrNotFound /\ pc'[p] = "retr_unlock")
    ]_vars

C8_Witness ==
  /\ resp.kind = "collect"
  /\ resp.status = 404
  /\ gone[resp.EphemeralKey] = "swept"
  /\ \E k \in EphemeralKeys : gone[k] = "collected"
  /\ pc[Sweeper] = "clean_unlock"

(***************************************************************************)
(* C9: a submit whose receipt id equals the id of an entry in the store,   *)
(* under the same or another key, is rejected as a duplicate, leaves the   *)
(* entries unchanged and is answered 409.                                  *)
(***************************************************************************)
C9_DuplicateIDRejected ==
  [][\A p \in Submitters :
       /\ (StoreBodyStep(p)
            /\ \E k \in DOMAIN receipts :
                  receipts[k].ReceiptID = req[p].ReceiptID)
            => (receipts' = receipts /\ res'[p] = ErrDuplicate)
       /\ (SubmitReturns(p) /\ res[p] = ErrDuplicate)
            => resp'.status = 409
    ]_vars

C9_Witness ==
  /\ resp.kind = "submit"
  /\ resp.status = 409
  /\ \E k \in DOMAIN receipts : receipts[k].ReceiptID = "r1"
  /\ \E k \in DOMAIN receipts : receipts[k].ReceiptID = "r2"

(***************************************************************************)
(* C10: when the open receipt has a line item, a payment method and a      *)
(* positive total and serialization, signer, assembler, encryption and     *)
(* submit all succeed, issue returns no error and the finalized receipt    *)
(* (the in-progress receipt with metadata and totals stamped), and the     *)
(* register holds no active receipt afterwards; a following start yields   *)
(* an open receipt with an empty item list.                                *)
(***************************************************************************)
C10_SuccessfulIssue ==
  [][/\ \A op \in IssueOps :
          (IssueStep(op) /\ currentReceipt # Nil) =>
            LET stamped == Finalized(currentReceipt, receiptCounter, now)
            IN /\ (/\ Len(currentReceipt.Items) > 0
                   /\ currentReceipt.PaymentMethod # <<>>
                   /\ stamped.TotalAmount > 0
                   /\ last'.err \notin PipelineErrors \ {"validation"}
                   /\ last'.err # "Invalid ephemeral key format")
                    => last'.err = ErrNone
               /\ last'.err = ErrNone =>
                    /\ last'.ret = stamped
                    /\ last'.ret.Items = currentReceipt.Items
                    /\ last'.ret.PaymentMethod = currentReceipt.PaymentMethod
                    /\ currentReceipt' = Nil
                    /\ receiptCounter' = receiptCounter + 1
     /\ (IssueStep("start") /\ last.op \in IssueOps /\ last.err = ErrNone) =>
          /\ currentReceipt' # Nil
          /\ currentReceipt'.Items = <<>>
    ]_vars

C10_Witness ==
  /\ last.op = "start"
  /\ currentReceipt # Nil
  /\ currentReceipt.Items = <<>>
  /\ receiptCounter = 2
  /\ DOMAIN receipts \cup DOMAIN mockStorage # {}

(***************************************************************************)
(* One terminal followed until its first receipt reaches the receipt bank, *)
(* in standalone mode, with lines of several kisims, prices and            *)
(* quantities.                                                             *)
(***************************************************************************)
MaxLines == 2
MaxLineQuantity == 2
MaxSerial == 3

ItemInputs == {<<1, 0>>, <<1, 29>>, <<2, 0>>, <<9, 0>>}
ItemQuantities == {1}

ItemScenarios ==
  {e \in Scenarios : /\ e.answer = GoodSignature /\ e.randOk /\ e.net = "ok"
                     /\ e.key.id \in {"k1", "short"}}

ItemsVKN == <<"0", "0", "0", "0", "0", "0", "0", "0", "1", "2">>

InitItems ==
  /\ InitStorage
  /\ InitRegister
  /\ cfg = [StoreVKN |-> ItemsVKN, StandaloneMode |-> TRUE]

(* The receipt a call returned is serialized and the bytes are decoded, as *)
(* a verifier of the binary receipt does.                                  *)
DecodeReturned ==
  /\ last.op = "finalize"
  /\ last.ret # Nil
  /\ \E enc \in {SerializeReceipt(last.ret)} :
       \E dec \in {IF enc.err THEN [err |-> TRUE, receipt |-> Nil]
                               ELSE DeserializeReceipt(enc.bytes)} :
         last' = [Report("decode", IF dec.err THEN "decode" ELSE ErrNone) EXCEPT
                    !.ret = dec.receipt, !.before = last.ret, !.binary = enc.bytes]
  /\ UNCHANGED <<cfg, currentReceipt, receiptCounter, mockStorage, receipts>>
  /\ bankUntouched

(* No receipt has reached the receipt bank yet.                            *)
Undelivered == mockStorage = EmptyMap

ItemsNext ==
  \/ Undelivered /\ StartNewReceipt
  \/ \E c \in ItemInputs, q \in ItemQuantities :
       Undelivered /\ AddItemUpTo(c[1], q, c[2], MaxLines, MaxLineQuantity, MaxSerial)
  \/ \E m \in PaymentInputs : Undelivered /\ SetPaymentMethod(m)
  \/ Undelivered /\ FinalizeUpTo(MaxSerial)
  \/ Undelivered /\ CancelCurrentReceipt
  \/ \E e \in ItemScenarios :
       Undelivered /\ IssueCallUpTo(e.key, e.answer, e.randOk, e.net, MaxSerial)
  \/ Undelivered /\ DecodeReturned

SpecItems == InitItems /\ [][ItemsNext]_vars

(***************************************************************************)
(* C11. Item merge rule: on an open receipt, adding kisim C at unit price  *)
(* P when a line for (C, P) exists adds the quantity to that line, keeps   *)
(* its unit price, sets its total to unit price times the new quantity and *)
(* leaves that line the only one for (C, P); when no line for (C, P)       *)
(* exists, because the price or the kisim differs, a new line is appended. *)
(* In both cases every other line is unchanged.                            *)
(***************************************************************************)
UnitPriceOf(kisimID, customUnitPrice) ==
  IF customUnitPrice > 0 THEN customUnitPrice ELSE KisimLookup[kisimID].PresetPrice

LinesFor(items, kisimID, unitPrice) ==
  {i \in 1..Len(items) : items[i].KisimID = kisimID /\ items[i].UnitPrice = unitPrice}

C11_ItemMergeRule ==
  [][\A c \in ItemInputs, q \in ItemQuantities :
       (/\ currentReceipt # Nil
        /\ c[1] \in DOMAIN KisimLookup
        /\ AddItemUpTo(c[1], q, c[2], MaxLines, MaxLineQuantity, MaxSerial))
       => LET old == currentReceipt.Items
              new == currentReceipt'.Items
              unit == UnitPriceOf(c[1], c[2])
              had == LinesFor(old, c[1], unit)
          IN /\ last'.err = ErrNone
             /\ Cardinality(LinesFor(new, c[1], unit)) = 1
             /\ \A i \in 1..Len(old) : i \notin had => new[i] = old[i]
             /\ IF had # {}
                THEN /\ Len(new) = Len(old)
                     /\ \A i \in had :
                          /\ new[i].Quantity = old[i].Quantity + q
                          /\ new[i].UnitPrice = unit
                          /\ new[i].KisimID = c[1]
                          /\ new[i].TaxRate = old[i].TaxRate
                          /\ new[i].TotalPrice = unit * (old[i].Quantity + q)
                ELSE /\ Len(new) = Len(old) + 1
                     /\ new[Len(new)].KisimID = c[1]
                     /\ new[Len(new)].UnitPrice = unit
                     /\ new[Len(new)].Quantity = q
                     /\ new[Len(new)].TotalPrice = unit * q]_vars

C11_Witness ==
  /\ last.op = "add"
  /\ last.err = ErrNone
  /\ currentReceipt # Nil
  /\ Len(currentReceipt.Items) = 2
  /\ currentReceipt.Items[1].KisimID = currentReceipt.Items[2].KisimID
  /\ currentReceipt.Items[1].UnitPrice # currentReceipt.Items[2].UnitPrice
  /\ currentReceipt.Items[1].Quantity = MaxLineQuantity

(***************************************************************************)
(* C12. In every receipt returned by issue or by finalize the total amount *)
(* is the sum of the total prices of its lines, each bucket's taxable      *)
(* amount is the sum over the lines of its rate of                         *)
(* lineTotal / (1 + rate/100), its tax is that base times rate/100, and    *)
(* the total tax is the sum of the two bucket taxes.                       *)
(***************************************************************************)
RECURSIVE LineTotals(_, _, _)
LineTotals(items, n, rates) ==
  IF n = 0 THEN 0
  ELSE LineTotals(items, n - 1, rates)
       + (IF items[n].TaxRate \in rates THEN items[n].TotalPrice ELSE 0)

Returned ==
  /\ last.op \in {"finalize", "issue", "process"}
  /\ last.err = ErrNone
  /\ last.ret # Nil

C12_TotalsDerived ==
  Returned =>
    LET r == last.ret
        n == Len(r.Items)
        tb == r.TaxBreakdown
    IN /\ r.TotalAmount = LineTotals(r.Items, n, {r.Items[i].TaxRate : i \in 1..n})
       /\ tb.Tax10Percent.TaxableAmount * (100 + 10)
            = LineTotals(r.Items, n, {10}) * TaxScale * 100
       /\ tb.Tax10Percent.TaxAmount * 100 = tb.Tax10Percent.TaxableAmount * 10
       /\ tb.Tax20Percent.TaxableAmount * (100 + 20)
            = LineTotals(r.Items, n, {20}) * TaxScale * 100
       /\ tb.Tax20Percent.TaxAmount * 100 = tb.Tax20Percent.TaxableAmount * 20
       /\ tb.TotalTax = tb.Tax10Percent.TaxAmount + tb.Tax20Percent.TaxAmount

C12_Witness ==
  /\ last.op = "issue"
  /\ Returned
  /\ Len(last.ret.Items) = 2
  /\ last.ret.Items[1].TaxRate # last.ret.Items[2].TaxRate
  /\ last.ret.Items[2].Quantity = 2
  /\ last.ret.TaxBreakdown.Tax10Percent.TaxAmount > 0
  /\ last.ret.TaxBreakdown.Tax20Percent.TaxAmount > 0

(***************************************************************************)
(* C13. Codec round trip: decoding the encoding of a receipt that finalize *)
(* returned yields that receipt field for field, the timestamp to the      *)
(* second, prices and totals equal in kurus and the taxable and tax        *)
(* amounts equal in whole kurus.                                           *)
(***************************************************************************)
SameTax(a, b) ==
  /\ a.TaxableAmount \div TaxScale = b.TaxableAmount \div TaxScale
  /\ a.TaxAmount \div TaxScale = b.TaxAmount \div TaxScale

C13_RoundTrip ==
  last.op = "decode" =>
    /\ last.err = ErrNone
    /\ LET d == last.ret
           r == last.before
       IN /\ d.ZReportNumber = r.ZReportNumber
          /\ d.TransactionID = r.TransactionID
          /\ d.Timestamp = r.Timestamp
          /\ d.StoreVKN = r.StoreVKN
          /\ d.StoreName = r.StoreName
          /\ d.StoreAddress = r.StoreAddress
          /\ d.PaymentMethod = r.PaymentMethod
          /\ d.ReceiptSerial = r.ReceiptSerial
          /\ d.TotalAmount = r.TotalAmount
          /\ d.Items = r.Items
          /\ SameTax(d.TaxBreakdown.Tax10Percent, r.TaxBreakdown.Tax10Percent)
          /\ SameTax(d.TaxBreakdown.Tax20Percent, r.TaxBreakdown.Tax20Percent)
          /\ d.TaxBreakdown.TotalTax \div TaxScale = r.TaxBreakdown.TotalTax \div TaxScale

(***************************************************************************)
(* The pure functions of the signer and of the crypto service, applied to  *)
(* inputs drawn at the start.                                              *)
(***************************************************************************)
MaxLeadingZeros == 1

(* A 256-bit scalar as its 32 big-endian bytes, the first z of them zero.  *)
Scalar(z) == [i \in 1..HashSize |-> IF i <= z THEN 0 ELSE 7]

HashInputs == {[i \in 1..n |-> i] : n \in {0, HashSize - 1, HashSize, HashSize + 1}}

SignInputs ==
  {[fn |-> "sign", hash |-> h, r |-> Scalar(zr), s |-> Scalar(zs)] :
     h \in HashInputs, zr \in 0..MaxLeadingZeros, zs \in 0..MaxLeadingZeros}

(* base64.StdEncoding: 4 characters for every 3 bytes, padded.             *)
Base64Len(n) == 4 * ((n + 2) \div 3)

(* CryptoService.SignHash of the revenue authority service; r and s are    *)
(* what ecdsa.Sign drew.                                                   *)
ServiceSignHash(hash, r, s) ==
  IF Base64Len(Len(hash)) # 44 \/ Len(hash) # 32
  THEN [err |-> TRUE, sig |-> <<>>]
  ELSE [err |-> FALSE, sig |-> BigIntBytes(r) \o BigIntBytes(s)]

PointInputs == {[fn |-> "point", pt |-> pt] : pt \in CurvePoints}

PrivateKeys == {1, 5, CurveN - 1}

EciesInputs ==
  {[fn |-> "ecies", plaintext |-> m, recipient |-> d,
    rnd |-> [ok |-> TRUE, nonceOk |-> TRUE, d |-> t, nonce |-> [i \in 1..12 |-> n]]] :
     m \in {<<>>, <<84, 82>>}, d \in PrivateKeys, t \in PrivateKeys, n \in {0, 9}}

EncryptInputs ==
  {[fn |-> "encrypt", plaintext |-> <<84, 82>>, publicKey |-> ScalarMult(BasePoint, u),
    rnd |-> [ok |-> g, nonceOk |-> n, d |-> t, nonce |-> [i \in 1..12 |-> 9]]] :
     u \in PrivateKeys, t \in PrivateKeys, g \in BOOLEAN, n \in BOOLEAN}

CryptoInputs == SignInputs \cup PointInputs \cup EciesInputs \cup EncryptInputs

InitCrypto ==
  /\ InitStorage
  /\ currentReceipt = Nil
  /\ receiptCounter = 1
  /\ mockStorage = EmptyMap
  /\ cfg = [StoreVKN |-> ItemsVKN, StandaloneMode |-> TRUE]
  /\ last \in {[Report("input", ErrNone) EXCEPT !.before = x] : x \in CryptoInputs}

Applied(op, err, out) ==
  /\ last' = [Report(op, IF err THEN op ELSE ErrNone) EXCEPT
                !.ret = out, !.before = last.before]
  /\ UNCHANGED <<cfg, currentReceipt, receiptCounter, mockStorage, receipts>>
  /\ bankUntouched

MockSign ==
  /\ last.op = "input" /\ last.before.fn = "sign"
  /\ \E out \in {MockSignHash(last.before.hash)} : Applied("mock sign", out.err, out.sig)

ServiceSign ==
  /\ last.op = "input" /\ last.before.fn = "sign"
  /\ \E out \in {ServiceSignHash(last.before.hash, last.before.r, last.before.s)} :
       Applied("service sign", out.err, out.sig)

PointRoundTrip ==
  /\ last.op = "input" /\ last.before.fn = "point"
  /\ \E compressed \in {PublicKeyToRawCompressed(last.before.pt)} :
       \E out \in {RawCompressedToPublicKey(compressed)} :
         Applied("point", out.err, [compressed |-> compressed, key |-> out.key])

(* The receiver's key pair, the encryption for its compressed public key   *)
(* and the decryption with its private key.                                *)
EciesRoundTrip ==
  /\ last.op = "input" /\ last.before.fn = "ecies"
  /\ LET in == last.before
         publicKey == PublicKeyToRawCompressed(ScalarMult(BasePoint, in.recipient))
     IN \E enc \in {EncryptWithUserEphemeralKey(in.plaintext, publicKey, in.rnd)} :
          \E dec \in {IF enc.err THEN [err |-> TRUE, plaintext |-> <<>>, key |-> Nil]
                                  ELSE eciesDecrypt(enc.bytes, in.recipient)} :
            Applied("ecies", dec.err,
                    [plaintext |-> dec.plaintext, key |-> dec.key,
                     senderKey |-> IF enc.err THEN Nil ELSE enc.bytes.sealed.key])

EncryptBuffers ==
  /\ last.op = "input" /\ last.before.fn = "encrypt"
  /\ LET in == last.before
     IN \E enc \in {encryptWithPublicKey(in.plaintext, in.publicKey, in.rnd)} :
          Applied("encrypt", enc.err,
                  [sharedSecret |-> enc.sharedSecret, encryptionKey |-> enc.encryptionKey])

CryptoNext ==
  \/ MockSign
  \/ ServiceSign
  \/ PointRoundTrip
  \/ EciesRoundTrip
  \/ EncryptBuffers

SpecCrypto == InitCrypto /\ [][CryptoNext]_vars

(***************************************************************************)
(* C15. The signer, mock and revenue authority service alike, returns a    *)
(* signature of exactly 64 bytes for a hash of 32 bytes, and an error and  *)
(* no signature for a hash of any other length.                            *)
(***************************************************************************)
C15_SignatureIs64Bytes ==
  last.op \in {"mock sign", "service sign"} =>
    IF Len(last.before.hash) = HashSize
    THEN last.err = ErrNone /\ Len(last.ret) = SignatureSize
    ELSE last.err # ErrNone /\ last.ret = <<>>

(***************************************************************************)
(* C17. Point codec inverse: for every public key on the curve, converting *)
(* it to the raw compressed form and back yields the same key, and the     *)
(* compressed form is 33 bytes, the first 0x02 when y is even and 0x03     *)
(* when y is odd.                                                          *)
(***************************************************************************)
C17_PointCodecInverse ==
  last.op = "point" =>
    /\ last.err = ErrNone
    /\ last.ret.key = last.before.pt
    /\ Len(last.ret.compressed) = 33
    /\ last.ret.compressed[1] = 2 <=> last.before.pt.Y % 2 = 0
    /\ last.ret.compressed[1] = 3 <=> last.before.pt.Y % 2 = 1

C17_Witness ==
  /\ last.op = "point"
  /\ last.err = ErrNone
  /\ last.ret.compressed[1] = 3
  /\ last.ret.key.Y # ModSqrt((last.ret.key.Y * last.ret.key.Y) % CurveP)

(***************************************************************************)
(* C16. Decryption reverses encryption: for every plaintext and receiver   *)
(* key pair, eciesDecrypt with the private key, applied to what            *)
(* EncryptWithUserEphemeralKey produced for the public key, derives the    *)
(* sender's symmetric key and returns the plaintext.                       *)
(***************************************************************************)
C16_DecryptReversesEncrypt ==
  last.op = "ecies" =>
    /\ last.err = ErrNone
    /\ last.ret.key = last.ret.senderKey
    /\ last.ret.plaintext = last.before.plaintext

(***************************************************************************)
(* C18. A receipt is frozen exactly once: once the receipt that start      *)
(* created carries its metadata (report number, transaction id, timestamp, *)
(* serial) and totals, no later operation on the register stamps them      *)
(* again for as long as that receipt is the current one, also when an      *)
(* issue failed and issue is called again.                                 *)
(***************************************************************************)
Stamp(r) ==
  <<r.ZReportNumber, r.TransactionID, r.Timestamp, r.ReceiptSerial,
    r.TaxBreakdown, r.TotalAmount>>

C18_FrozenOnce ==
  [][(/\ currentReceipt # Nil
      /\ currentReceipt.TransactionID # <<>>
      /\ currentReceipt' # Nil
      /\ last'.op # "start")
     => Stamp(currentReceipt') = Stamp(currentReceipt)]_vars

(***************************************************************************)
(* C20. An issue given a receiver key that is not a valid 33-byte          *)
(* compressed point (wrong length, a parity byte other than 0x02 and 0x03, *)
(* or an x with no point on the curve) fails and returns no receipt,       *)
(* submit is never invoked for it and the stores are unchanged; when the   *)
(* receipt passed the steps before encryption, encryption is invoked and   *)
(* the error is the encryption error.                                      *)
(***************************************************************************)
NotACompressedPoint(b) ==
  \/ Len(b) # 33
  \/ b[1] \notin {2, 3}
  \/ LET x == Uint(b, 2, Len(b) - 1)
     IN ~\E y \in 0..(CurveP - 1) :
           (y * y) % CurveP = (x * x * x + (CurveP - 3) * x + CurveB) % CurveP

InvalidKeys == {k.id : k \in {v \in KeyInputs : NotACompressedPoint(v.bytes)}}

Handler == "process"

InitTerminal ==
  /\ receipts = EmptyMap
  /\ mu = NoProc
  /\ now = 0
  /\ pc = [h \in {Handler} |-> "idle"]
  /\ req = [h \in {Handler} |-> NoReq]
  /\ loc = [h \in {Handler} |-> NoLoc]
  /\ res = [h \in {Handler} |-> ErrNone]
  /\ resp = NoResp
  /\ delivered = [k \in EphemeralKeys |-> 0]
  /\ gone = [k \in EphemeralKeys |-> "never"]
  /\ InitRegister
  /\ cfg = [StoreVKN |-> ItemsVKN, StandaloneMode |-> TRUE]

handlerUntouched == UNCHANGED <<mu, now, req, res, resp, delivered, gone, cfg>>

(* if !h.cashRegister.HasActiveReceipt() { 400 }                           *)
ProcessCheck ==
  /\ pc[Handler] = "idle"
  /\ IF currentReceipt = Nil
     THEN /\ last' = [Report("process", "No active transaction") EXCEPT !.status = 400]
          /\ pc' = pc
     ELSE /\ last' = last
          /\ pc' = [pc EXCEPT ![Handler] = "checked"]
  /\ UNCHANGED <<currentReceipt, receiptCounter, receipts, mockStorage, loc>>
  /\ handlerUntouched

(* IssueCurrentReceipt up to the call of the signer: the receipt is        *)
(* stamped and serialized; what the remaining steps will do is determined  *)
(* by the bytes and the key, and is kept in the locals.                    *)
ProcessStamp(key, answer, randOk, net) ==
  /\ pc[Handler] = "checked"
  /\ \E out \in {IssueCurrentReceipt(currentReceipt, receiptCounter, receipts,
                                      mockStorage, now, key, answer, randOk, net)} :
        /\ out.counter <= MaxCounter
        /\ receiptCounter' = out.counter
        /\ currentReceipt' = IF out.err = ErrNone THEN out.ret ELSE out.cur
        /\ loc' = [loc EXCEPT ![Handler] = out]
        /\ pc' = [pc EXCEPT ![Handler] =
                    IF Invoked(out, "sign") THEN "signing" ELSE "returning"]
  /\ UNCHANGED <<receipts, mockStorage, last>>
  /\ handlerUntouched

(* Steps 5 to 8: sign, assemble, encrypt and submit.                       *)
ProcessDeliver ==
  /\ pc[Handler] = "signing"
  /\ receipts' = loc[Handler].receipts
  /\ mockStorage' = loc[Handler].mockStorage
  /\ pc' = [pc EXCEPT ![Handler] = "returning"]
  /\ UNCHANGED <<currentReceipt, receiptCounter, loc, last>>
  /\ handlerUntouched

(* Step 9, finalizedReceipt := cr.currentReceipt; cr.currentReceipt = nil, *)
(* or the handler's cancelTransaction after an error; then the response.   *)
ProcessReturn ==
  /\ pc[Handler] = "returning"
  /\ IF loc[Handler].err # ErrNone
     THEN /\ currentReceipt' = cancelTransaction(currentReceipt)
          /\ last' = IssueReport("process", 500, loc[Handler], Nil)
     ELSE /\ currentReceipt' = Nil
          /\ last' = [IssueReport("process", 200, loc[Handler], loc[Handler].ret)
                        EXCEPT !.ret = currentReceipt]
  /\ pc' = [pc EXCEPT ![Handler] = "idle"]
  /\ loc' = [loc EXCEPT ![Handler] = NoLoc]
  /\ UNCHANGED <<receiptCounter, receipts, mockStorage>>
  /\ handlerUntouched

TerminalNext ==
  \/ StartNewReceipt
  \/ AddItem(1, 1, 0)
  \/ \E m \in PaymentInputs : SetPaymentMethod(m)
  \/ CancelCurrentReceipt
  \/ ProcessCheck
  \/ \E e \in ItemScenarios : ProcessStamp(e.key, e.answer, e.randOk, e.net)
  \/ ProcessDeliver
  \/ ProcessReturn

SpecTerminal == InitTerminal /\ [][TerminalNext]_vars

(***************************************************************************)
(* C19. Calls on one terminal are serialized: while ProcessTransaction is  *)
(* between two steps of IssueCurrentReceipt, no other handler runs an      *)
(* operation of the same CashRegister, so currentReceipt is not changed by *)
(* a start, an add, a payment or a cancel until the issue has returned.    *)
(***************************************************************************)
InIssue ==
  \/ pc[Handler] = "signing"
  \/ pc[Handler] = "returning" /\ loc[Handler].err = ErrNone

C19_CallsSerialized ==
  [][(InIssue /\ pc'[Handler] = pc[Handler])
     => /\ currentReceipt' = currentReceipt
        /\ last'.op \notin {"start", "add", "payment", "cancel"}]_vars

(***************************************************************************)
(* C21. A sweep removes exactly the entries whose age (sweep time minus    *)
(* creation timestamp) is greater than the maximum age, and leaves every   *)
(* other entry with its key, payload, identifier and timestamp unchanged;  *)
(* it adds no entry.                                                       *)
(***************************************************************************)
SweepBodyStep == pc[Sweeper] = "clean_body" /\ pc'[Sweeper] = "clean_unlock"

C21_SweepRemovesExactlyTheOld ==
  [][SweepBodyStep =>
       \A k \in EphemeralKeys :
         /\ k \notin DOMAIN receipts => k \notin DOMAIN receipts'
         /\ (k \in DOMAIN receipts /\ now - receipts[k].Timestamp > MaxReceiptAge)
              => k \notin DOMAIN receipts'
         /\ (k \in DOMAIN receipts /\ now - receipts[k].Timestamp <= MaxReceiptAge)
              => /\ k \in DOMAIN receipts'
                 /\ receipts'[k] = receipts[k]]_vars

C21_Witness ==
  /\ pc[Sweeper] = "clean_unlock"
  /\ \E k, j \in EphemeralKeys :
       /\ gone[k] = "swept"
       /\ k \notin DOMAIN receipts
       /\ j \in DOMAIN receipts
       /\ now - receipts[j].Timestamp = MaxReceiptAge

(***************************************************************************)
(* C22. Store operations on different keys do not block each other: no     *)
(* submit or collect for one key stands at the lock of the storage while   *)
(* the lock is held by a submit or collect for a different key.            *)
(***************************************************************************)
WaitsForLock(p) == pc[p] \in {"store_lock", "retr_lock"} /\ ~MuFree

C22_DifferentKeysDoNotBlock ==
  \A p, q \in Submitters \cup Collectors :
    (WaitsForLock(p) /\ mu = q) => req[q].EphemeralKey = req[p].EphemeralKey

(***************************************************************************)
(* The receipt bank's collect handler and its webhook notifications.       *)
(* Storage calls are taken as one step each here (their locking is in      *)
(* SpecStore). loc holds the notification goroutines that are running, in  *)
(* the order they were started; a goroutine leaves when NotifyCollection   *)
(* returns.                                                                *)
(***************************************************************************)
MaxNotifications == 2
MaxRetries == 1

CollectProc == "c1"
NotifyPayloads == {"v1"}
WebhookAnswers == {"2xx", "bad status", "request failed"}

(* go func() { ... }(): the statement returns at once, whatever the        *)
(* goroutines are doing.                                                   *)
GoReturned_WhenNotified(ns, id) == \A i \in 1..Len(ns) : ns[i].ReceiptID # id

GoReturned(ns, id) == TRUE

InitNotify ==
  /\ receipts = EmptyMap
  /\ mu = NoProc
  /\ now = 0
  /\ pc = [p \in {CollectProc} |-> "idle"]
  /\ req = [p \in {CollectProc} |-> NoReq]
  /\ loc = <<>>
  /\ res = [p \in {CollectProc} |-> ErrNone]
  /\ resp = NoResp
  /\ delivered = [k \in EphemeralKeys |-> 0]
  /\ gone = [k \in EphemeralKeys |-> "never"]
  /\ InitRegister
  /\ cfg = [StoreVKN |-> <<"1", "2">>, StandaloneMode |-> FALSE]

notifyUntouched ==
  UNCHANGED <<mu, now, res, delivered, gone, cfg, currentReceipt,
              receiptCounter, mockStorage, last>>

(* SubmitHandler, with Store as one step.                                  *)
NotifySubmit(k, v, id) ==
  /\ LET out == Store(receipts, [EphemeralKey |-> k, EncryptedData |-> v,
                                 ReceiptID |-> id, Timestamp |-> now])
     IN /\ receipts' = out.receipts
        /\ resp' = [proc |-> "s1", kind |-> "submit", status |-> SubmitStatus(out.err)]
  /\ UNCHANGED <<pc, req, loc>>
  /\ notifyUntouched

(* CollectHandler up to the go statement: validation and Retrieve.         *)
CollectRetrieve(k) ==
  /\ pc[CollectProc] = "idle"
  /\ Len(loc) < MaxNotifications
  /\ IF ~ValidateEphemeralKey(k)
     THEN /\ resp' = [proc |-> CollectProc, kind |-> "collect", status |-> 400]
          /\ UNCHANGED <<receipts, pc, req>>
     ELSE IF k \notin DOMAIN receipts
     THEN /\ resp' = [proc |-> CollectProc, kind |-> "collect",
                      status |-> CollectStatus(ErrNotFound), EphemeralKey |-> k]
          /\ UNCHANGED <<receipts, pc, req>>
     ELSE /\ receipts' = RetrieveRemove(receipts, k)
          /\ req' = [req EXCEPT ![CollectProc] =
                       [kind |-> "collect", EphemeralKey |-> k, receipt |-> receipts[k]]]
          /\ pc' = [pc EXCEPT ![CollectProc] = "retrieved"]
          /\ resp' = resp
  /\ UNCHANGED loc
  /\ notifyUntouched

(* go func() { h.webhookClient.NotifyCollection(...) }()                   *)
CollectSpawn ==
  /\ pc[CollectProc] = "retrieved"
  /\ loc' = Append(loc, [ReceiptID |-> req[CollectProc].receipt.ReceiptID,
                         attempt |-> 0, state |-> "sending"])
  /\ pc' = [pc EXCEPT ![CollectProc] = "spawned"]
  /\ UNCHANGED <<receipts, req, resp>>
  /\ notifyUntouched

(* h.writeJSON(w, http.StatusOK, resp)                                     *)
CollectRespond ==
  /\ pc[CollectProc] = "spawned"
  /\ GoReturned(loc, req[CollectProc].receipt.ReceiptID)
  /\ resp' = [proc |-> CollectProc, kind |-> "collect",
              status |-> CollectStatus(ErrNone),
              EphemeralKey |-> req[CollectProc].EphemeralKey,
              EncryptedData |-> req[CollectProc].receipt.EncryptedData,
              ReceiptID |-> req[CollectProc].receipt.ReceiptID]
  /\ pc' = [pc EXCEPT ![CollectProc] = "idle"]
  /\ req' = [req EXCEPT ![CollectProc] = NoReq]
  /\ UNCHANGED <<receipts, loc>>
  /\ notifyUntouched

Without(ns, i) == SubSeq(ns, 1, i - 1) \o SubSeq(ns, i + 1, Len(ns))

(* sendWebhook: one pass of the loop body after the backoff. A 2xx answer  *)
(* returns nil; any other outcome continues with the next attempt, and     *)
(* after maxRetries + 1 attempts the last error is returned and logged.    *)
WebhookAttempt(i, answer) ==
  /\ i \in 1..Len(loc)
  /\ loc[i].state = "sending"
  /\ loc' = IF answer = "2xx" \/ loc[i].attempt >= MaxRetries
            THEN Without(loc, i)
            ELSE [loc EXCEPT ![i] = [@ EXCEPT !.attempt = @ + 1, !.state = "backoff"]]
  /\ UNCHANGED <<receipts, pc, req, resp>>
  /\ notifyUntouched

(* time.Sleep(backoff) is over.                                            *)
WebhookBackoff(i) ==
  /\ i \in 1..Len(loc)
  /\ loc[i].state = "backoff"
  /\ loc' = [loc EXCEPT ![i] = [@ EXCEPT !.state = "sending"]]
  /\ UNCHANGED <<receipts, pc, req, resp>>
  /\ notifyUntouched

NotifyNext ==
  \/ \E k \in EphemeralKeys, v \in NotifyPayloads, id \in ReceiptIDs : NotifySubmit(k, v, id)
  \/ \E k \in EphemeralKeys \cup {MalformedKey} : CollectRetrieve(k)
  \/ CollectSpawn
  \/ CollectRespond
  \/ \E i \in 1..MaxNotifications, a \in WebhookAnswers : WebhookAttempt(i, a)
  \/ \E i \in 1..MaxNotifications : WebhookBackoff(i)

SpecNotify == InitNotify /\ [][NotifyNext]_vars

(***************************************************************************)
(* C23. The post-collection notification runs asynchronously: once the     *)
(* goroutine is started the collect response can be written whatever the   *)
(* notification attempts are doing, and it carries the retrieved payload;  *)
(* a notification is started only after Retrieve succeeded, for the        *)
(* receipt it returned; and no step of a notification (an attempt, a       *)
(* failure, a backoff, giving up) changes the stored entries, the response *)
(* or the handler.                                                         *)
(***************************************************************************)
C23_NotificationIsAsynchronous ==
  /\ [](pc[CollectProc] = "spawned" => ENABLED CollectRespond)
  /\ [][(pc[CollectProc] = "spawned" /\ pc'[CollectProc] = "idle")
          => /\ resp'.status = 200
             /\ resp'.EncryptedData = req[CollectProc].receipt.EncryptedData
             /\ resp'.ReceiptID = req[CollectProc].receipt.ReceiptID]_vars
  /\ [][Len(loc') > Len(loc)
          => /\ pc[CollectProc] = "retrieved"
             /\ Len(loc') = Len(loc) + 1
             /\ loc'[Len(loc')].ReceiptID = req[CollectProc].receipt.ReceiptID]_vars
  /\ [][(loc' # loc /\ Len(loc') <= Len(loc))
          => /\ receipts' = receipts
             /\ resp' = resp
             /\ pc' = pc
             /\ req' = req]_vars

C23_Witness ==
  /\ resp.kind = "collect"
  /\ resp.status = 200
  /\ pc[CollectProc] = "idle"
  /\ resp.EphemeralKey \notin DOMAIN receipts
  /\ \E i \in 1..Len(loc) :
       /\ loc[i].ReceiptID = resp.ReceiptID
       /\ loc[i].state = "backoff"
       /\ loc[i].attempt >= 1

(***************************************************************************)
(* The binary codec on its own: SerializeReceipt on receipts whose textual *)
(* fields are well formed or not, and DeserializeReceipt on the bytes of a *)
(* well-formed receipt and on damaged copies of them.                      *)
(***************************************************************************)
CodecReceipt ==
  calculateTotals(
    [NewReceipt EXCEPT !.ZReportNumber = <<"Z">> \o Pad4(ZReportCounter),
                       !.TransactionID = <<"T", "X">> \o DateStamp(0) \o Pad4(1),
                       !.StoreVKN = ItemsVKN,
                       !.StoreName = StoreName,
                       !.StoreAddress = StoreAddress,
                       !.Items = AddedItem(<<>>, 1, 1, 0),
                       !.PaymentMethod = <<78>>,
                       !.ReceiptSerial = <<"F">> \o Pad4(1)])

CodecBytes == SerializeReceipt(CodecReceipt).bytes

(* The offset of the item count: the last two bytes before the items.      *)
CountAt == Len(CodecBytes) - TaxBreakdownSize - ItemSize * Len(CodecReceipt.Items) - 1

WithByte(data, at, b) == [data EXCEPT ![at] = b]

DecodeInputs ==
  {[fn |-> "decode", kind |-> "valid", data |-> CodecBytes]}
  \cup {[fn |-> "decode", kind |-> "truncated", data |-> SubSeq(CodecBytes, 1, n)] :
          n \in 0..(Len(CodecBytes) - 1)}
  \cup {[fn |-> "decode", kind |-> "magic", data |-> WithByte(CodecBytes, at, 0)] :
          at \in {1, 2}}
  \cup {[fn |-> "decode", kind |-> "version", data |-> WithByte(CodecBytes, 3, v)] :
          v \in {0, 2}}
  \cup {[fn |-> "decode", kind |-> "reserved", data |-> WithByte(CodecBytes, 4, 1)]}
  \cup {[fn |-> "decode", kind |-> "too few items",
         data |-> WithByte(CodecBytes, CountAt + 1, Len(CodecReceipt.Items) + 1)]}
  \cup {[fn |-> "decode", kind |-> "bytes left over",
         data |-> CodecBytes \o [i \in 1..n |-> 0]] : n \in {1, ItemSize}}

ZTexts == {<<"Z", "0", "0", "0", "1">>, <<"Z", "1", "X">>, <<"Z", "X", "1">>,
           <<"Y", "0", "0", "0", "1">>, <<"Z">>}
TXTexts == {<<"T", "X">> \o DateStamp(0) \o <<"0", "0", "0", "1">>,
            <<"T", "X">> \o DateStamp(0) \o <<"1", "A">>,
            <<"T", "X">> \o DateStamp(0) \o <<"A", "1">>,
            <<"T", "Y">> \o DateStamp(0) \o <<"0", "0", "0", "1">>,
            <<"T", "X", "a", "b", "c", "d", "e", "f", "g", "h", "0", "0", "0", "1">>}
VKNTexts == {<<"1", "2">>, <<"1", "A">>, <<"A", "1">>, <<>>}
FTexts == {<<"F", "0", "0", "0", "1">>, <<"F", "7", "-">>, <<"F", "-", "7">>,
           <<"G", "0", "0", "0", "1">>, <<"F">>}

EncodeInputs ==
  {[fn |-> "encode", receipt |-> [CodecReceipt EXCEPT !.ZReportNumber = t]] : t \in ZTexts}
  \cup {[fn |-> "encode", receipt |-> [CodecReceipt EXCEPT !.TransactionID = t]] : t \in TXTexts}
  \cup {[fn |-> "encode", receipt |-> [CodecReceipt EXCEPT !.StoreVKN = t]] : t \in VKNTexts}
  \cup {[fn |-> "encode", receipt |-> [CodecReceipt EXCEPT !.ReceiptSerial = t]] : t \in FTexts}

InitCodec ==
  /\ InitStorage
  /\ currentReceipt = Nil
  /\ receiptCounter = 1
  /\ mockStorage = EmptyMap
  /\ cfg = [StoreVKN |-> ItemsVKN, StandaloneMode |-> TRUE]
  /\ last \in {[Report("input", ErrNone) EXCEPT !.before = x] :
                 x \in DecodeInputs \cup EncodeInputs}

Decode ==
  /\ last.op = "input" /\ last.before.fn = "decode"
  /\ \E out \in {DeserializeReceipt(last.before.data)} :
       Applied("decode", out.err, out.receipt)

Encode ==
  /\ last.op = "input" /\ last.before.fn = "encode"
  /\ \E out \in {SerializeReceipt(last.before.receipt)} :
       Applied("encode", out.err, out.bytes)

CodecNext ==
  \/ Decode
  \/ Encode

SpecCodec == InitCodec /\ [][CodecNext]_vars

(***************************************************************************)
(* C24. DeserializeReceipt fails closed on every malformed input: wrong    *)
(* magic, wrong version, non-zero reserved byte, data truncated anywhere,  *)
(* an item count that declares more items than there are bytes, or bytes   *)
(* left over after the tax breakdown: it returns an error and no receipt.  *)
(***************************************************************************)
C24_DecodeFailsClosed ==
  (last.op = "decode" /\ last.before.kind # "valid")
    => (last.err # ErrNone /\ last.ret = Nil)

(***************************************************************************)
(* C25. SerializeReceipt returns an error and no bytes whenever the report *)
(* number is not "Z" followed only by digits, the transaction id is not    *)
(* "TX", eight date digits and only digits, the serial is not "F" followed *)
(* only by digits, or the registration id is not digits only.              *)
(***************************************************************************)
DigitsAfter(s, n) == Len(s) > n /\ \A i \in (n + 1)..Len(s) : IsDigit(s[i])

WellFormedTexts(r) ==
  /\ DigitsAfter(r.ZReportNumber, 1) /\ r.ZReportNumber[1] = "Z"
  /\ DigitsAfter(r.TransactionID, 2) /\ SubSeq(r.TransactionID, 1, 2) = <<"T", "X">>
  /\ Len(r.TransactionID) > 10
  /\ DigitsAfter(r.ReceiptSerial, 1) /\ r.ReceiptSerial[1] = "F"
  /\ DigitsAfter(r.StoreVKN, 0)

C25_EncodeRejectsMalformedTexts ==
  (last.op = "encode" /\ ~WellFormedTexts(last.before.receipt))
    => (last.err # ErrNone /\ last.ret = <<>>)

(***************************************************************************)
(* C26. Whenever encryptWithPublicKey returns after the shared secret was  *)
(* computed, on success or on an error of a later step, the shared-secret  *)
(* buffer and the derived-key buffer hold only zeros.                      *)
(***************************************************************************)
C26_KeyMaterialZeroed ==
  (last.op = "encrypt" /\ last.before.rnd.ok)
    => /\ last.ret.sharedSecret = Zeroed(last.ret.sharedSecret)
       /\ last.ret.encryptionKey = Zeroed(last.ret.encryptionKey)

(***************************************************************************)
(* One terminal issuing to the real receipt bank, several receipts in a    *)
(* row, while wallets collect. Store and Retrieve are one step each here.  *)
(***************************************************************************)
MaxIssues == 4

BankAnswers == {GoodSignature, [err |-> TRUE, len |-> 0]}

BankCollect(k) ==
  /\ k \in DOMAIN receipts
  /\ receipts' = RetrieveRemove(receipts, k)
  /\ last' = Report("collect", ErrNone)
  /\ UNCHANGED <<cfg, currentReceipt, receiptCounter, mockStorage>>
  /\ bankUntouched

BankNext ==
  \/ RegTick
  \/ StartNewReceipt
  \/ AddItemUpTo(1, 1, 0, MaxItems, MaxQuantity, MaxIssues)
  \/ \E m \in PaymentInputs : SetPaymentMethod(m)
  \/ FinalizeUpTo(MaxIssues)
  \/ CancelCurrentReceipt
  \/ \E key \in ValidKeys, answer \in BankAnswers :
       IssueCallUpTo(key, answer, TRUE, "ok", MaxIssues)
  \/ \E k \in EphemeralKeys : BankCollect(k)

SpecBank == InitStore /\ [][BankNext]_vars

(***************************************************************************)
(* C27. A submission that reaches the receipt bank for an index key with   *)
(* no entry is never rejected: the receipt identifiers that                *)
(* RealReceiptBank.SubmitReceipt generates are distinct from those of the  *)
(* entries still waiting, also within one clock second.                    *)
(***************************************************************************)
C27_FreshKeyNeverRejected ==
  [][(/\ IssueStep("issue")
      /\ Invoked(last', "submit")
      /\ last'.key \notin DOMAIN receipts)
     => /\ last'.err = ErrNone
        /\ last'.key \in DOMAIN receipts']_vars

(***************************************************************************)
(* C28. collect does not check age: whenever an entry for the key is       *)
(* present when Retrieve looks it up, however old, Retrieve deletes it and *)
(* the handler answers 200 with its payload; and at every moment every     *)
(* entry older than the maximum age that is still in the map is counted by *)
(* Stats both as stored and as expired, the expired count never exceeding  *)
(* the total.                                                              *)
(***************************************************************************)
OldEntries == {k \in DOMAIN receipts : now - receipts[k].Timestamp > MaxReceiptAge}

C28_CollectIgnoresAge ==
  /\ [](/\ Stats(receipts, now).total = Cardinality(DOMAIN receipts)
        /\ Stats(receipts, now).expired = Cardinality(OldEntries)
        /\ Stats(receipts, now).expired <= Stats(receipts, now).total)
  /\ [][\A p \in Collectors :
          /\ (pc[p] = "retr_lookup" /\ pc'[p] # "retr_lookup"
                /\ req[p].EphemeralKey \in DOMAIN receipts)
               => /\ pc'[p] = "retr_delete"
                  /\ loc'[p].receipt = receipts[req[p].EphemeralKey]
          /\ (pc[p] = "retr_delete" /\ pc'[p] # "retr_delete")
               => /\ req[p].EphemeralKey \notin DOMAIN receipts'
                  /\ res'[p] = ErrNone
                  /\ pc'[p] = "retr_unlock"
          /\ (pc[p] = "retr_unlock" /\ pc'[p] # "retr_unlock" /\ loc[p].exists)
               => /\ resp'.status = 200
                  /\ resp'.EncryptedData = loc[p].receipt.EncryptedData
                  /\ resp'.ReceiptID = loc[p].receipt.ReceiptID]_vars

C28_Witness ==
  \E p \in Collectors :
    /\ pc[p] = "retr_delete"
    /\ req[p].EphemeralKey \in OldEntries
    /\ loc[p].receipt = receipts[req[p].EphemeralKey]
    /\ Stats(receipts, now).expired >= 1

(***************************************************************************)
(* C29. The receipt counter never decreases; an issue or finalize call     *)
(* that finds an active receipt with at least one item raises it by        *)
(* exactly one, whatever the later steps do, and no other call changes it. *)
(* A successfully issued or finalized receipt carries the counter's value  *)
(* before the call as its serial, and the counter stays above the serial   *)
(* of the receipt returned last: the serials of successive successes are   *)
(* strictly increasing, with gaps where attempts failed.                   *)
(***************************************************************************)
SerialNumber(r) == ScanDigits(SubSeq(r.ReceiptSerial, 2, Len(r.ReceiptSerial)), 1, 0).val

PastChecks == currentReceipt # Nil /\ Len(currentReceipt.Items) > 0

ReturnedOk(report) == report.op \in {"issue", "finalize"} /\ report.err = ErrNone

C29_SerialCounterMonotone ==
  /\ [](ReturnedOk(last) => (last.ret # Nil /\ SerialNumber(last.ret) < receiptCounter))
  /\ [][/\ receiptCounter' >= receiptCounter
        /\ ((IssueStep("issue") \/ IssueStep("finalize")) /\ PastChecks)
             => receiptCounter' = receiptCounter + 1
        /\ ~((IssueStep("issue") \/ IssueStep("finalize")) /\ PastChecks)
             => receiptCounter' = receiptCounter
        /\ (now' = now /\ ReturnedOk(last'))
             => /\ PastChecks
                /\ last'.ret.ReceiptSerial = <<"F">> \o Pad4(receiptCounter)
                /\ SerialNumber(last'.ret) = receiptCounter]_vars

(* A receipt issued with serial F0003 although the register's previous     *)
(* attempt, which failed, had already stamped it F0002.                    *)
C29_Witness ==
  /\ last.op = "issue"
  /\ last.err = ErrNone
  /\ last.before.ReceiptSerial = <<"F">> \o Pad4(2)
  /\ SerialNumber(last.ret) = 3
  /\ receiptCounter = 4
  /\ last.key \in DOMAIN receipts

(***************************************************************************)
(* C30. With no active receipt, AddItem, SetPaymentMethod,                 *)
(* FinalizeCurrentReceipt and IssueCurrentReceipt each return the          *)
(* "no active receipt" error, invoke no collaborator, return no receipt    *)
(* and leave the current receipt, the counter and both stores unchanged;   *)
(* CancelCurrentReceipt returns without an error and changes nothing.      *)
(***************************************************************************)
C30_NoActiveReceipt ==
  [][currentReceipt = Nil
       => /\ (\E op \in {"add", "payment", "finalize", "issue"} : IssueStep(op))
               => /\ last'.err = "no active receipt"
                  /\ last'.calls = <<>>
                  /\ last'.ret = Nil
                  /\ currentReceipt' = Nil
                  /\ receiptCounter' = receiptCounter
                  /\ storesUnchanged
          /\ IssueStep("cancel")
               => /\ last'.err = ErrNone
                  /\ currentReceipt' = Nil
                  /\ receiptCounter' = receiptCounter
                  /\ storesUnchanged]_vars

(* An issue refused for want of an active receipt after an earlier issue   *)
(* succeeded and cleared it.                                               *)
C30_Witness ==
  /\ last.op = "issue"
  /\ last.err = "no active receipt"
  /\ last.before = Nil
  /\ currentReceipt = Nil
  /\ receiptCounter = 2
  /\ (DOMAIN receipts # {} \/ mockStorage # EmptyMap)

====
